---- MODULE Spec2Model ----
(***************************************************************************)
(* Placement portal: the storage layer (src/server/storage.ts and its two  *)
(* sibling implementations) and the REST handlers of src/server/routes.ts  *)
(* that drive it, as a state machine.                                      *)
(*                                                                         *)
(* Three implementations of IStorage exist in the repository:              *)
(*   "DatabaseStorage"  src/server/storage.ts    Map-based, used by routes *)
(*   "MemStorage"       src/unnamed/part_000     Map-based                 *)
(*   "DrizzleStorage"   src/unnamed/part_001     class DatabaseStorage on  *)
(*                                               drizzle/Postgres          *)
(* The variable `variant` fixes, for a whole behaviour, which one the      *)
(* handlers are linked against.                                            *)
(*                                                                         *)
(* A handler is cut at its awaits.  A step runs the handler from one await *)
(* to the next and includes the effect of the storage call it awaits.      *)
(* A Map-based storage method has no await of its own, so its promise is   *)
(* already resolved and the handler's continuation is a microtask: it runs *)
(* before any other request is served.  A drizzle call (and bcrypt.hash)   *)
(* waits for I/O: other requests may run meanwhile.  The await that only   *)
(* precedes res.json is folded into the step before it: the response is    *)
(* decided by then.                                                        *)
(***************************************************************************)
EXTENDS Integers, Sequences, FiniteSets, TLC

\* ------------------------------------------------------------------ bounds
MaxInFlight == 2
MaxUsers == 4
MaxJobs == 3
MaxApplications == 3
MaxStatusApplications == 2
MaxResumes == 3
MaxSavedJobs == 3

\* ------------------------------------------------------------- vocabulary
Null == "null"
Absent == "undefined"
NoId == 0

Variants == {"DatabaseStorage", "MemStorage", "DrizzleStorage"}
MapVariants == {"DatabaseStorage", "MemStorage"}

Slots == 1..MaxInFlight

VARIABLES variant, users, currentUserId, jobs, currentJobId, applications,
          currentApplicationId, resumes, currentResumeId, savedJobs,
          currentSavedJobId, req, response,
          notifications, currentNotificationId,
          isElasticsearchAvailable, elastic,
          authStore, localStorage

userVars == <<users, currentUserId>>
jobVars == <<jobs, currentJobId>>
applicationVars == <<applications, currentApplicationId>>
resumeVars == <<resumes, currentResumeId>>
savedJobVars == <<savedJobs, currentSavedJobId>>
notificationVars == <<notifications, currentNotificationId>>
\* The search service: its availability flag, and the progress of its start-up,
\* the calls made to the client and the content of the index.
searchVars == <<isElasticsearchAvailable, elastic>>
\* The browser: the auth store and what the page keeps in localStorage.
clientVars == <<authStore, localStorage>>
\* What the handlers of users, jobs, applications, resumes and saved jobs never touch.
restVars == <<notificationVars, searchVars, clientVars>>

vars == <<variant, userVars, jobVars, applicationVars, resumeVars, savedJobVars,
          req, response, restVars>>

\* JavaScript's `a || b` on the string-or-null values the handlers pass.
Truthy(v) == v # Null /\ v # Absent /\ v # ""
OrElse(a, b) == IF Truthy(a) THEN a ELSE b

Min(S) == CHOOSE x \in S : \A y \in S : x <= y

\* Map.delete / a DELETE statement: the map without the given keys.
Without(map, ids) == [k \in DOMAIN map \ ids |-> map[k]]

\* bcrypt.hash, as a one-way tag; bcrypt.compare checks a plain text against it.
Hash(plain) == <<"bcrypt", plain>>
verifyPassword(plainPassword, hashedPassword) == hashedPassword = Hash(plainPassword)

\* --------------------------------------------------------------- requests
Idle == [kind |-> "none", pc |-> "idle", wait |-> "none"]

\* The response sent last: the handler it came from, res.status and the message.
NoResponse == [kind |-> "none", status |-> 0, message |-> ""]

Response(kind, status, message) == [kind |-> kind, status |-> status, message |-> message]

\* The kind of suspension an awaited storage call causes.
AwaitKind == IF variant \in MapVariants THEN "microtask" ELSE "io"

Free(r) == req[r].pc = "idle"

\* The event loop drains the microtask queue before it serves anything else.
MayRun(r) == \A q \in Slots \ {r} : req[q].wait # "microtask"

\* res.status(status).json(...) ends the request.
Respond(r, kind, status, message) ==
  /\ req' = [req EXCEPT ![r] = Idle]
  /\ response' = Response(kind, status, message)

\* The request waits at an await with its locals.
Suspend(r, frame) ==
  /\ req' = [req EXCEPT ![r] = frame]
  /\ UNCHANGED response

InFlight(pcs) == Cardinality({q \in Slots : req[q].pc \in pcs})

\* The payload of a verified bearer token: jwt.sign({id, email, role}).
Token(u) == [id |-> u, role |-> users[u].role]
Tokens == {Token(u) : u \in DOMAIN users}

\* ------------------------------------------------------------------ users
SampleEmail(role) ==
  IF variant = "DatabaseStorage"
    THEN (IF role = "student" THEN "student@university.edu" ELSE "faculty@university.edu")
    ELSE (IF role = "student" THEN "john.smith@college.edu" ELSE "rajesh.kumar@college.edu")

\* Creation instants of users are kept as the order of creation: 0 for the
\* sample data, the user's number for a registered user.
SampleUser(role) ==
  [id |-> IF role = "student" THEN 1 ELSE 2,
   email |-> SampleEmail(role), password |-> Hash("password123"), role |-> role,
   department |-> "Computer Science", createdAt |-> 0]

SampleUsers == (1 :> SampleUser("student")) @@ (2 :> SampleUser("faculty"))

UsersWithEmail(email) == {u \in DOMAIN users : users[u].email = email}

\* A lookup that only sees the users of the sample data.
getUserByEmail_SampleOnly(email) ==
  IF UsersWithEmail(email) \cap {1, 2} = {} THEN NoId ELSE Min(UsersWithEmail(email) \cap {1, 2})

\* The user found for the email (the first in insertion order), or NoId.
getUserByEmail(email) ==
  IF UsersWithEmail(email) = {} THEN NoId ELSE Min(UsersWithEmail(email))

\* The row createUser stores: the parsed body with the password hashed.
\* MemStorage spreads the body and adds no default for department.
NewUser(user) ==
  [id |-> currentUserId,
   email |-> user.email, password |-> Hash(user.password), role |-> user.role,
   department |-> IF variant = "MemStorage" THEN user.department
                  ELSE OrElse(user.department, Null),
   createdAt |-> currentUserId]

\* users.email is declared unique in the schema; only Postgres enforces it.
EmailTaken(email, except) ==
  variant = "DrizzleStorage" /\ UsersWithEmail(email) \ {except} # {}

createUser(user) ==
  /\ users' = users @@ (currentUserId :> NewUser(user))
  /\ currentUserId' = currentUserId + 1

\* { ...user, ...updates }: the fields present in updates replace the stored ones.
Merged(user, updates) ==
  [f \in DOMAIN user |->
     IF f \in DOMAIN updates /\ updates[f] # Absent THEN updates[f] ELSE user[f]]

\* An update that stamps the row with the instant of the update.
UpdatedUser_Restamped(user, updates) ==
  [Merged(user, updates) EXCEPT !.createdAt = currentUserId]

\* The row updateUser stores.  storage.ts restores id and createdAt after the
\* spread, MemStorage only spreads, and the drizzle UPDATE sets the given columns
\* and always sets department (to null when updates has none).
UpdatedUser(user, updates) ==
  IF variant = "DatabaseStorage"
    THEN [Merged(user, updates) EXCEPT !.id = user.id, !.createdAt = user.createdAt]
  ELSE IF variant = "MemStorage"
    THEN Merged(user, updates)
  ELSE [Merged(user, updates) EXCEPT
          !.department = IF "department" \in DOMAIN updates
                           THEN OrElse(updates.department, Null) ELSE Null]

updateUser(id, updates) ==
  users' = [users EXCEPT ![id] = UpdatedUser(users[id], updates)]

\* ------------------------------------------------------------------- jobs
\* The texts of the two sample jobs, which differ between the implementations.
SampleTitle(n) ==
  IF variant = "DatabaseStorage"
    THEN (IF n = 1 THEN "Software Engineer Intern" ELSE "Full Stack Developer")
    ELSE (IF n = 1 THEN "Senior Software Engineer" ELSE "Frontend Developer Intern")

SampleCompany(n) ==
  IF n = 2 THEN "StartupXYZ"
  ELSE IF variant = "MemStorage" THEN "TechCorp Solutions" ELSE "TechCorp"

SampleDescription(n) ==
  IF variant = "DatabaseStorage"
    THEN (IF n = 1
            THEN "Join our dynamic team as a Software Engineer Intern and gain hands-on experience in full-stack development."
            ELSE "We're looking for a passionate Full Stack Developer to join our growing team.")
  ELSE IF variant = "MemStorage"
    THEN (IF n = 1
            THEN "We are looking for a Senior Software Engineer to join our dynamic team. You will be responsible for developing scalable web applications..."
            ELSE "Great opportunity for students to gain hands-on experience in frontend development. Work with modern technologies and learn from experienced developers...")
  ELSE (IF n = 1
          THEN "Looking for experienced software engineers to join our growing team."
          ELSE "Summer internship opportunity for frontend development.")

SampleLocation(n) ==
  IF variant = "MemStorage"
    THEN (IF n = 1 THEN "Bangalore, India" ELSE "Mumbai, India")
    ELSE (IF n = 1 THEN "San Francisco, CA" ELSE "Remote")

SampleType(n) ==
  IF variant = "DatabaseStorage" THEN (IF n = 1 THEN "internship" ELSE "full-time")
  ELSE IF variant = "MemStorage" THEN (IF n = 1 THEN "full-time" ELSE "internship")
  ELSE (IF n = 1 THEN "Full-time" ELSE "Internship")

\* A sample job: posted by the sample faculty member, active, with a deadline
\* some weeks after construction.  Instants are counted in clock ticks from
\* construction; a deadline is kept as "future" or "past" against the instants
\* of the requests served.
SampleJob(n, createdAt) ==
  [id |-> n, postedBy |-> 2, isActive |-> TRUE, createdAt |-> createdAt, deadline |-> "future",
   title |-> SampleTitle(n), company |-> SampleCompany(n), description |-> SampleDescription(n),
   location |-> SampleLocation(n), type |-> SampleType(n)]

SampleJobIds == {1, 2}

\* Ticks of the clock between the creation of the first and of the second
\* sample job: two `new Date()` in a row give the same or a later instant; the
\* one INSERT of seed() gives both rows the same defaultNow().
SampleGaps == IF variant = "DrizzleStorage" THEN {0} ELSE {0, 1}

SampleJobs(gap) == (1 :> SampleJob(1, 0)) @@ (2 :> SampleJob(2, gap))

\* The latest creation instant among the stored jobs.
LatestCreatedAt ==
  IF jobs = <<>> THEN 0
  ELSE CHOOSE t \in {jobs[j].createdAt : j \in DOMAIN jobs} :
         \A j \in DOMAIN jobs : jobs[j].createdAt <= t

\* new Date() / defaultNow() at a creation: the clock has not ticked since the
\* latest creation, or it has.
CreationInstants == {LatestCreatedAt, LatestCreatedAt + 1}

\* The row createJob stores.  isActive defaults to true where the code has a
\* default; MemStorage spreads the body and adds none: the field stays
\* undefined, which every reader treats as false.
NewJob(job, postedBy, createdAt) ==
  [id |-> currentJobId,
   postedBy |-> postedBy,
   isActive |-> IF job.isActive # Absent THEN job.isActive = "true"
                ELSE variant # "MemStorage",
   createdAt |-> createdAt,
   deadline |-> job.deadline,
   title |-> job.title, company |-> job.company, description |-> job.description,
   location |-> job.location, type |-> job.type]

createJob(job, postedBy) ==
  /\ \E createdAt \in CreationInstants :
       jobs' = jobs @@ (currentJobId :> NewJob(job, postedBy, createdAt))
  /\ currentJobId' = currentJobId + 1

UpdatedJob(job, updates) ==
  [job EXCEPT !.isActive = IF updates.isActive # Absent THEN updates.isActive = "true" ELSE @,
              !.deadline = IF "deadline" \in DOMAIN updates /\ updates.deadline # Absent
                             THEN updates.deadline ELSE @]

updateJob(id, updates) ==
  jobs' = [jobs EXCEPT ![id] = UpdatedJob(jobs[id], updates)]

deleteJob(id) ==
  jobs' = Without(jobs, {id})

\* ----------------------------------------------------------- applications
ApplicationsOf(studentId, jobId) ==
  {a \in DOMAIN applications :
     applications[a].studentId = studentId /\ applications[a].jobId = jobId}

\* A lookup that compares the job id with the row's own id instead of its jobId.
checkExistingApplication_WrongField(studentId, jobId) ==
  IF \E a \in DOMAIN applications : applications[a].studentId = studentId /\ a = jobId
    THEN jobId
    ELSE NoId

\* The application found for the pair (the first in insertion order), or NoId.
checkExistingApplication(studentId, jobId) ==
  IF ApplicationsOf(studentId, jobId) = {} THEN NoId
  ELSE Min(ApplicationsOf(studentId, jobId))

\* { ...base, ...over }: the properties of base, those of over written last.
Spread(base, over) ==
  [f \in DOMAIN base \cup DOMAIN over |-> IF f \in DOMAIN over THEN over[f] ELSE base[f]]

\* appliedAt: new Date() (defaultNow() for drizzle).  The clock never runs
\* backwards and two calls can fall into one instant.
LatestAppliedAt ==
  CHOOSE t \in {applications[a].appliedAt : a \in DOMAIN applications} :
    \A a \in DOMAIN applications : applications[a].appliedAt <= t

AppliedInstants ==
  IF DOMAIN applications = {} THEN {1} ELSE {LatestAppliedAt, LatestAppliedAt + 1}

\* application.resumeId || null; NoId stands for null and for a missing property.
ResumeIdOf(application) ==
  IF "resumeId" \in DOMAIN application THEN application.resumeId ELSE NoId

\* A row built with the input spread after the fixed fields, so that the
\* input's own status survives.
NewApplication_SpreadLast(application, appliedAt) ==
  Spread([status |-> "pending", rejectionReason |-> Null, appliedAt |-> appliedAt,
          resumeId |-> ResumeIdOf(application)],
         application)

\* The row createApplication stores and returns for an InsertApplication: the
\* input is spread first and status is written after it.  storage.ts and
\* drizzle also write rejectionReason: null; MemStorage keeps the input's.
NewApplication(application, appliedAt) ==
  Spread(application,
         IF variant = "MemStorage"
           THEN [status |-> "pending", appliedAt |-> appliedAt,
                 resumeId |-> ResumeIdOf(application)]
           ELSE [status |-> "pending", rejectionReason |-> Null, appliedAt |-> appliedAt,
                 resumeId |-> ResumeIdOf(application)])

\* An insert guarded by a unique index on (studentId, jobId).
createApplication_Unique(application) ==
  IF ApplicationsOf(application.studentId, application.jobId) # {}
    THEN UNCHANGED <<applications, currentApplicationId>>
    ELSE \E appliedAt \in AppliedInstants :
           /\ applications' = applications
                @@ (currentApplicationId :> NewApplication(application, appliedAt))
           /\ currentApplicationId' = currentApplicationId + 1

createApplication(application) ==
  \E appliedAt \in AppliedInstants :
    /\ applications' = applications
         @@ (currentApplicationId :> NewApplication(application, appliedAt))
    /\ currentApplicationId' = currentApplicationId + 1

\* updateApplicationStatus(id, status, rejectionReason): the row it stores.
UpdatedApplication(application, status, rejectionReason) ==
  [application EXCEPT
     !.status = status,
     !.rejectionReason =
        IF variant = "MemStorage"
          THEN OrElse(rejectionReason, application.rejectionReason)
          ELSE OrElse(rejectionReason, Null)]

updateApplicationStatus(id, status, rejectionReason) ==
  applications' =
    [applications EXCEPT ![id] = UpdatedApplication(applications[id], status, rejectionReason)]

\* ---------------------------------------------------------------- resumes
ResumesOf(studentId) == {x \in DOMAIN resumes : resumes[x].studentId = studentId}

DefaultResumesOf(studentId) == {x \in ResumesOf(studentId) : resumes[x].isDefault}

\* createResume stores the flag it is given and touches no other resume.
createResume(resume) ==
  /\ resumes' = resumes @@ (currentResumeId :>
                   [studentId |-> resume.studentId, isDefault |-> resume.isDefault])
  /\ currentResumeId' = currentResumeId + 1

Owns(id, studentId) == id \in DOMAIN resumes /\ resumes[id].studentId = studentId

\* A delete that does not look at the owner.
deleteResume_Unchecked(id, studentId) ==
  resumes' = Without(resumes, {id})

deleteResume(id, studentId) ==
  resumes' = IF Owns(id, studentId) THEN Without(resumes, {id}) ELSE resumes

\* applications.resume_id references resumes.id: the database refuses to delete
\* a resume an application points to.
ResumeReferenced(id) ==
  /\ variant = "DrizzleStorage"
  /\ \E a \in DOMAIN applications : applications[a].resumeId = id

\* The references of a row to insert exist (checked by the database only).
ForeignKeysHold(application) ==
  variant = "DrizzleStorage"
    => /\ application.jobId \in DOMAIN jobs
       /\ ResumeIdOf(application) \in DOMAIN resumes \cup {NoId}

\* update resumes set isDefault = false where studentId = ...
ClearDefaults(studentId) ==
  [x \in DOMAIN resumes |->
     IF resumes[x].studentId = studentId THEN [resumes[x] EXCEPT !.isDefault = FALSE]
     ELSE resumes[x]]

\* The Map variants: ownership check, clear, set, with no await in between.
setDefaultResume(id, studentId) ==
  resumes' = IF Owns(id, studentId)
               THEN [ClearDefaults(studentId) EXCEPT ![id].isDefault = TRUE]
               ELSE resumes

\* drizzle, first statement: clear the student's defaults (no ownership check yet).
setDefaultResumeClear(studentId) ==
  resumes' = ClearDefaults(studentId)

\* drizzle, second statement: set the flag where id and studentId match.
setDefaultResumeSet(id, studentId) ==
  resumes' = IF Owns(id, studentId) THEN [resumes EXCEPT ![id].isDefault = TRUE]
             ELSE resumes

\* -------------------------------------------------------------- savedJobs
SavedJobsOf(studentId, jobId) ==
  {x \in DOMAIN savedJobs :
     savedJobs[x].studentId = studentId /\ savedJobs[x].jobId = jobId}

\* saveJob inserts a row without looking for an existing one.
saveJob(studentId, jobId) ==
  /\ savedJobs' = savedJobs @@ (currentSavedJobId :> [studentId |-> studentId, jobId |-> jobId])
  /\ currentSavedJobId' = currentSavedJobId + 1

\* The rows unsaveJob removes: the first match in a Map, every match in SQL.
Unsaved(studentId, jobId) ==
  IF SavedJobsOf(studentId, jobId) = {} THEN {}
  ELSE IF variant \in MapVariants THEN {Min(SavedJobsOf(studentId, jobId))}
  ELSE SavedJobsOf(studentId, jobId)

unsaveJob(studentId, jobId) ==
  savedJobs' = Without(savedJobs, Unsaved(studentId, jobId))

checkSavedJob(studentId, jobId) == SavedJobsOf(studentId, jobId) # {}

\* --------------------------------------------------------- initial states
\* new ElasticsearchService(): the flag is false and the ping of
\* initializeElasticsearch is in flight; no call has reached the client.
ElasticStart == [pc |-> "pinging", calls |-> 0, index |-> {}]

\* An absent object is the empty row, a present one the row that holds it.
None == <<>>
Some(x) == <<x>>

\* The browser before the page is opened for the first time: no store, and
\* nothing under the keys 'auth-token' and 'auth-storage'.
NotLoaded == [variant |-> "none", user |-> None, token |-> Null, isAuthenticated |-> FALSE]
EmptyLocalStorage == [authToken |-> Null, authStorage |-> None]

\* The state outside the five maps after construction: no notification (no
\* sample notification is created), the search service just constructed, the
\* page not opened.
RestInit ==
  /\ notifications = <<>>
  /\ currentNotificationId = 1
  /\ isElasticsearchAvailable = FALSE
  /\ elastic = ElasticStart
  /\ authStore = NotLoaded
  /\ localStorage = EmptyLocalStorage

\* After construction and initializeSampleData (seed() for drizzle): two users,
\* two jobs, nothing else.
Init ==
  /\ variant \in Variants
  /\ users = SampleUsers
  /\ currentUserId = 3
  /\ \E gap \in SampleGaps : jobs = SampleJobs(gap)
  /\ currentJobId = 3
  /\ applications = <<>>
  /\ currentApplicationId = 1
  /\ resumes = <<>>
  /\ currentResumeId = 1
  /\ savedJobs = <<>>
  /\ currentSavedJobId = 1
  /\ req = [r \in Slots |-> Idle]
  /\ response = NoResponse
  /\ RestInit

\* The users two POST /api/auth/register requests add to the sample data, one
\* student and one faculty member (SpecUsersSeq reaches this population).
RegisteredUser(id, email, role) ==
  [id |-> id, email |-> email, password |-> Hash("secret"), role |-> role,
   department |-> IF variant = "MemStorage" THEN Absent ELSE Null,
   createdAt |-> id]

RegisteredUsers ==
  (3 :> RegisteredUser(3, "a@college.edu", "student"))
  @@ (4 :> RegisteredUser(4, "b@college.edu", "faculty"))

\* The state after those two registrations: what the handlers below start from,
\* so that two students and two faculty members hold tokens.
InitPopulated ==
  /\ variant \in Variants
  /\ users = SampleUsers @@ RegisteredUsers
  /\ currentUserId = 5
  /\ \E gap \in SampleGaps : jobs = SampleJobs(gap)
  /\ currentJobId = 3
  /\ applications = <<>>
  /\ currentApplicationId = 1
  /\ resumes = <<>>
  /\ currentResumeId = 1
  /\ savedJobs = <<>>
  /\ currentSavedJobId = 1
  /\ req = [r \in Slots |-> Idle]
  /\ response = NoResponse
  /\ RestInit

\* ------------------------------------------------ POST /api/auth/register
EmailInputs == {SampleEmail("student"), "a@college.edu", "b@college.edu"}
PasswordInputs == {"secret", "other"}
RegisterBodies ==
  [email : EmailInputs \cup {Absent}, password : PasswordInputs, role : {"student", "faculty"},
   department : {Absent}]

\* insertUserSchema.parse, then the call of getUserByEmail.
RegisterStart(r, body) ==
  /\ Free(r)
  /\ MayRun(r)
  /\ currentUserId + InFlight({"lookedUp", "hashing"}) <= MaxUsers
  /\ IF body.email = Absent
       THEN Respond(r, "register", 400, "Required")
       ELSE Suspend(r, [kind |-> "register", pc |-> "lookedUp", wait |-> AwaitKind,
                        userData |-> body, existingUser |-> getUserByEmail(body.email)])
  /\ UNCHANGED <<variant, restVars, userVars, jobVars, applicationVars, resumeVars, savedJobVars>>

\* The continuation after the lookup: reject, or enter createUser, which awaits
\* bcrypt.hash before it touches the store.
RegisterCheck(r) ==
  /\ req[r].pc = "lookedUp"
  /\ MayRun(r)
  /\ IF req[r].existingUser # NoId
       THEN Respond(r, "register", 400, "User already exists")
       ELSE Suspend(r, [kind |-> "register", pc |-> "hashing", wait |-> "io",
                        userData |-> req[r].userData])
  /\ UNCHANGED <<variant, restVars, userVars, jobVars, applicationVars, resumeVars, savedJobVars>>

\* createUser after the hash: the insert (refused by Postgres on a taken email).
RegisterInsert(r) ==
  /\ req[r].pc = "hashing"
  /\ MayRun(r)
  /\ IF EmailTaken(req[r].userData.email, NoId)
       THEN /\ Respond(r, "register", 400, "duplicate key value violates unique constraint")
            /\ UNCHANGED userVars
       ELSE /\ createUser(req[r].userData)
            /\ Respond(r, "register", 200, "")
  /\ UNCHANGED <<variant, restVars, jobVars, applicationVars, resumeVars, savedJobVars>>

\* -------------------------------------------------- PUT /api/users/profile
StrayId == 99

ProfileBodies ==
  [id : {NoId, StrayId}, email : EmailInputs \cup {Absent}, password : {Absent, "hacked"},
   department : {Absent}]

\* insertUserSchema.partial().parse: the schema omits id and createdAt, and zod
\* drops the keys of the body that the schema does not have.
ParsedProfile(body) == [f \in DOMAIN body \ {"id", "createdAt"} |-> body[f]]

\* insertUserSchema.partial().parse, delete updates.password, updateUser.
UpdateProfile(r, user, body) ==
  /\ Free(r)
  /\ MayRun(r)
  /\ IF user.id \notin DOMAIN users
       THEN /\ Respond(r, "profile", 400, "User not found")
            /\ UNCHANGED userVars
     ELSE IF body.email # Absent /\ EmailTaken(body.email, user.id)
       THEN /\ Respond(r, "profile", 400, "duplicate key value violates unique constraint")
            /\ UNCHANGED userVars
     ELSE /\ updateUser(user.id, [ParsedProfile(body) EXCEPT !.password = Absent])
          /\ UNCHANGED currentUserId
          /\ Respond(r, "profile", 200, "")
  /\ UNCHANGED <<variant, restVars, jobVars, applicationVars, resumeVars, savedJobVars>>

\* ----------------------------------------------------------- /api/jobs
JobBodies ==
  [title : {Absent, "Engineer"}, company : {"Acme"}, description : {"Build REACT apps"},
   deadline : {"future"}, isActive : {Absent, "true", "false"},
   location : {"Remote"}, type : {"internship"}]
JobUpdates == [isActive : {Absent, "true", "false"}]
JobIdInputs == 1..MaxJobs

\* POST /api/jobs
CreateJob(r, user, body) ==
  /\ Free(r)
  /\ MayRun(r)
  /\ currentJobId <= MaxJobs
  /\ IF user.role # "faculty"
       THEN /\ Respond(r, "createJob", 403, "Only faculty can post jobs")
            /\ UNCHANGED jobVars
     ELSE IF body.title = Absent
       THEN /\ Respond(r, "createJob", 400, "Required")
            /\ UNCHANGED jobVars
     ELSE /\ createJob(body, user.id)
          /\ Respond(r, "createJob", 201, "")
  /\ UNCHANGED <<variant, restVars, userVars, applicationVars, resumeVars, savedJobVars>>

\* PUT /api/jobs/:id
UpdateJob(r, user, id, body) ==
  /\ Free(r)
  /\ MayRun(r)
  /\ IF user.role # "faculty"
       THEN /\ Respond(r, "updateJob", 403, "Only faculty can update jobs")
            /\ UNCHANGED jobVars
     ELSE IF id \notin DOMAIN jobs
       THEN \* the Map variants throw; drizzle updates no row and returns undefined
            /\ IF variant \in MapVariants
                 THEN Respond(r, "updateJob", 400, "Job not found")
                 ELSE Respond(r, "updateJob", 200, "")
            /\ UNCHANGED jobVars
     ELSE /\ updateJob(id, body)
          /\ UNCHANGED currentJobId
          /\ Respond(r, "updateJob", 200, "")
  /\ UNCHANGED <<variant, restVars, userVars, applicationVars, resumeVars, savedJobVars>>

\* Rows whose foreign key points at the job: Postgres refuses to delete it.
Referenced(id) ==
  /\ variant = "DrizzleStorage"
  /\ \/ \E a \in DOMAIN applications : applications[a].jobId = id
     \/ \E x \in DOMAIN savedJobs : savedJobs[x].jobId = id

\* DELETE /api/jobs/:id
DeleteJob(r, user, id) ==
  /\ Free(r)
  /\ MayRun(r)
  /\ IF user.role # "faculty"
       THEN /\ Respond(r, "deleteJob", 403, "Only faculty can delete jobs")
            /\ UNCHANGED jobVars
     ELSE IF id \notin DOMAIN jobs
       THEN /\ Respond(r, "deleteJob", 404, "Job not found")
            /\ UNCHANGED jobVars
     ELSE IF Referenced(id)
       THEN /\ Respond(r, "deleteJob", 500, "violates foreign key constraint")
            /\ UNCHANGED jobVars
     ELSE /\ deleteJob(id)
          /\ UNCHANGED currentJobId
          /\ Respond(r, "deleteJob", 200, "Job deleted successfully")
  /\ UNCHANGED <<variant, restVars, userVars, applicationVars, resumeVars, savedJobVars>>

\* ------------------------------------------------- POST /api/applications
ApplyJobIds == {NoId, 1, 2}
ReasonInputs == {Null, "", "reasonA", "reasonB"}

\* Bodies without and with a rejectionReason field.
ApplyBodies == [jobId : ApplyJobIds, rejectionReason : {Null}]
ApplyBodiesWithReason == [jobId : ApplyJobIds, rejectionReason : {Null, "reasonA"}]
\* Bodies that name a resume.
ApplyBodiesWithResume == [jobId : SampleJobIds, rejectionReason : {Null}, resumeId : {1, 2}]
\* Bodies that name the sample student as studentId, with or without a status.
ApplyBodiesWithStudentId ==
  [jobId : ApplyJobIds, rejectionReason : {Null}, studentId : {1}]
  \cup [jobId : ApplyJobIds, rejectionReason : {Null}, studentId : {1}, status : {"accepted"}]

\* insertApplicationSchema.parse({...req.body, studentId: req.user.id}): jobId is
\* required, rejectionReason is optional text, id/appliedAt/status are omitted.
ParseOk(body) == body.jobId # NoId

\* The schema fields of a body spread after the token's id, so that a studentId
\* in the body wins.
ParsedApplication_BodyLast(body, user) ==
  LET data == Spread([studentId |-> user.id], body)
  IN  [f \in DOMAIN data \ {"id", "appliedAt", "status"} |-> data[f]]

\* { ...req.body, studentId: req.user.id }, then the keys the schema omits are
\* stripped by the parse.
ParsedApplication(body, user) ==
  LET data == Spread(body, [studentId |-> user.id])
  IN  [f \in DOMAIN data \ {"id", "appliedAt", "status"} |-> data[f]]

\* Role check, schema parse, and the call of checkExistingApplication.
ApplyStart(r, user, body) ==
  /\ Free(r)
  /\ MayRun(r)
  /\ IF user.role # "student"
       THEN Respond(r, "apply", 403, "Only students can apply for jobs")
     ELSE IF ~ParseOk(body)
       THEN Respond(r, "apply", 400, "Required")
     ELSE Suspend(r, [kind |-> "apply", pc |-> "checked", wait |-> AwaitKind,
                      applicationData |-> ParsedApplication(body, user),
                      existingApplication |->
                        checkExistingApplication(user.id, body.jobId)])
  /\ UNCHANGED <<variant, restVars, userVars, jobVars, applicationVars, resumeVars, savedJobVars>>

\* The continuation after the check: reject, or createApplication and answer 201.
ApplyCreate(r) ==
  /\ req[r].pc = "checked"
  /\ MayRun(r)
  /\ IF req[r].existingApplication # NoId
       THEN /\ Respond(r, "apply", 400, "Already applied for this job")
            /\ UNCHANGED applicationVars
     ELSE IF ~ForeignKeysHold(req[r].applicationData)
       THEN /\ Respond(r, "apply", 400, "violates foreign key constraint")
            /\ UNCHANGED applicationVars
       ELSE /\ createApplication(req[r].applicationData)
            /\ Respond(r, "apply", 201, "")
  /\ UNCHANGED <<variant, restVars, userVars, jobVars, resumeVars, savedJobVars>>

\* ------------------------------------------ PUT /api/applications/:id/status
StatusInputs == {"pending", "accepted", "rejected", "withdrawn"}
ApplicationIdInputs == 1..MaxApplications

UpdateStatus(r, user, id, status, rejectionReason) ==
  /\ Free(r)
  /\ MayRun(r)
  /\ IF user.role # "faculty"
       THEN /\ Respond(r, "status", 403, "Only faculty can update application status")
            /\ UNCHANGED applications
     ELSE IF id \notin DOMAIN applications
       THEN \* the Map variants throw; drizzle updates no row and returns undefined
            /\ IF variant \in MapVariants
                 THEN Respond(r, "status", 400, "Application not found")
                 ELSE Respond(r, "status", 200, "")
            /\ UNCHANGED applications
     ELSE /\ updateApplicationStatus(id, status, rejectionReason)
          /\ Respond(r, "status", 200, "")
  /\ UNCHANGED <<variant, restVars, userVars, jobVars, currentApplicationId, resumeVars, savedJobVars>>

\* ------------------------------------------------------------ /api/resumes
ResumeIdInputs == 1..MaxResumes

\* POST /api/resumes (after multer): file is whether a file came with the form.
CreateResume(r, user, file, isDefault) ==
  /\ Free(r)
  /\ MayRun(r)
  /\ currentResumeId <= MaxResumes
  /\ IF user.role # "student"
       THEN /\ Respond(r, "createResume", 403, "Only students can upload resumes")
            /\ UNCHANGED resumeVars
     ELSE IF ~file
       THEN /\ Respond(r, "createResume", 400, "No file uploaded")
            /\ UNCHANGED resumeVars
     ELSE /\ createResume([studentId |-> user.id, isDefault |-> isDefault])
          /\ Respond(r, "createResume", 201, "")
  /\ UNCHANGED <<variant, restVars, userVars, jobVars, applicationVars, savedJobVars>>

\* DELETE /api/resumes/:id
DeleteResume(r, user, id) ==
  /\ Free(r)
  /\ MayRun(r)
  /\ IF user.role # "student"
       THEN /\ Respond(r, "deleteResume", 403, "Only students can delete their resumes")
            /\ UNCHANGED resumes
     ELSE IF Owns(id, user.id) /\ ResumeReferenced(id)
       THEN /\ Respond(r, "deleteResume", 500, "violates foreign key constraint")
            /\ UNCHANGED resumes
     ELSE /\ deleteResume(id, user.id)
          /\ IF Owns(id, user.id)
               THEN Respond(r, "deleteResume", 200, "Resume deleted successfully")
               ELSE Respond(r, "deleteResume", 404, "Resume not found")
  /\ UNCHANGED <<variant, restVars, userVars, jobVars, applicationVars, currentResumeId, savedJobVars>>

\* PUT /api/resumes/:id/default.  A Map variant runs setDefaultResume in one piece;
\* drizzle awaits its first UPDATE and goes on in SetDefaultFinish.
SetDefault(r, user, id) ==
  /\ Free(r)
  /\ MayRun(r)
  /\ IF user.role # "student"
       THEN /\ Respond(r, "setDefault", 403, "Only students can set default resume")
            /\ UNCHANGED resumes
     ELSE IF variant \in MapVariants
       THEN /\ setDefaultResume(id, user.id)
            /\ IF Owns(id, user.id)
                 THEN Respond(r, "setDefault", 200, "Default resume updated successfully")
                 ELSE Respond(r, "setDefault", 404, "Resume not found")
     ELSE /\ setDefaultResumeClear(user.id)
          /\ Suspend(r, [kind |-> "setDefault", pc |-> "cleared", wait |-> "io",
                         id |-> id, studentId |-> user.id])
  /\ UNCHANGED <<variant, restVars, userVars, jobVars, applicationVars, currentResumeId, savedJobVars>>

\* drizzle: the second UPDATE, and the answer from its row count.
SetDefaultFinish(r) ==
  /\ req[r].pc = "cleared"
  /\ MayRun(r)
  /\ setDefaultResumeSet(req[r].id, req[r].studentId)
  /\ IF Owns(req[r].id, req[r].studentId)
       THEN Respond(r, "setDefault", 200, "Default resume updated successfully")
       ELSE Respond(r, "setDefault", 404, "Resume not found")
  /\ UNCHANGED <<variant, restVars, userVars, jobVars, applicationVars, currentResumeId, savedJobVars>>

\* --------------------------------------------------------- /api/saved-jobs
\* The ids of the stored jobs and one id no job has.
SaveJobIds == DOMAIN jobs \cup {currentJobId}

\* POST /api/saved-jobs without the role test.
SaveJob_Ungated(r, user, jobId) ==
  /\ Free(r)
  /\ MayRun(r)
  /\ currentSavedJobId <= MaxSavedJobs
  /\ IF variant = "DrizzleStorage" /\ jobId \notin DOMAIN jobs
       THEN /\ Respond(r, "saveJob", 400, "violates foreign key constraint")
            /\ UNCHANGED savedJobVars
       ELSE /\ saveJob(user.id, jobId)
            /\ Respond(r, "saveJob", 201, "")
  /\ UNCHANGED <<variant, restVars, userVars, jobVars, applicationVars, resumeVars>>

\* POST /api/saved-jobs: the body's jobId goes to saveJob unchecked; only
\* Postgres refuses a jobId that references no job.
SaveJob(r, user, jobId) ==
  /\ Free(r)
  /\ MayRun(r)
  /\ currentSavedJobId <= MaxSavedJobs
  /\ IF user.role # "student"
       THEN /\ Respond(r, "saveJob", 403, "Only students can save jobs")
            /\ UNCHANGED savedJobVars
     ELSE IF variant = "DrizzleStorage" /\ jobId \notin DOMAIN jobs
       THEN /\ Respond(r, "saveJob", 400, "violates foreign key constraint")
            /\ UNCHANGED savedJobVars
     ELSE /\ saveJob(user.id, jobId)
          /\ Respond(r, "saveJob", 201, "")
  /\ UNCHANGED <<variant, restVars, userVars, jobVars, applicationVars, resumeVars>>

\* DELETE /api/saved-jobs/:jobId
UnsaveJob(r, user, jobId) ==
  /\ Free(r)
  /\ MayRun(r)
  /\ IF user.role # "student"
       THEN /\ Respond(r, "unsaveJob", 403, "Only students can unsave jobs")
            /\ UNCHANGED savedJobs
     ELSE /\ unsaveJob(user.id, jobId)
          /\ IF Unsaved(user.id, jobId) # {}
               THEN Respond(r, "unsaveJob", 200, "Job unsaved successfully")
               ELSE Respond(r, "unsaveJob", 404, "Saved job not found")
  /\ UNCHANGED <<variant, restVars, userVars, jobVars, applicationVars, resumeVars, currentSavedJobId>>

\* --------------------------------------------------------- specifications
Register(r) ==
  \/ \E body \in RegisterBodies : RegisterStart(r, body)
  \/ RegisterCheck(r)
  \/ RegisterInsert(r)

UsersStep(r) ==
  \/ Register(r)
  \/ \E user \in Tokens, body \in ProfileBodies : UpdateProfile(r, user, body)

\* POST /api/auth/register and PUT /api/users/profile, served concurrently.
NextUsers == \E r \in Slots : UsersStep(r)
SpecUsers == Init /\ [][NextUsers]_vars

\* The same requests, each served to its end before the next starts.
NextUsersSeq == UsersStep(1)
SpecUsersSeq == Init /\ [][NextUsersSeq]_vars

JobsStep(r) ==
  \/ \E user \in Tokens, body \in JobBodies : CreateJob(r, user, body)
  \/ \E user \in Tokens, id \in JobIdInputs, body \in JobUpdates : UpdateJob(r, user, id, body)
  \/ \E user \in Tokens, id \in JobIdInputs : DeleteJob(r, user, id)

NextJobs == \E r \in Slots : JobsStep(r)
SpecJobs == InitPopulated /\ [][NextJobs]_vars

Apply(r, bodies, max) ==
  \/ /\ currentApplicationId + InFlight({"checked"}) <= max
     /\ \E user \in Tokens, body \in bodies : ApplyStart(r, user, body)
  \/ ApplyCreate(r)

\* POST /api/applications, requests served concurrently.
NextApply == \E r \in Slots : Apply(r, ApplyBodies, MaxApplications)
SpecApply == InitPopulated /\ [][NextApply]_vars

\* POST /api/applications, each request served to its end before the next starts.
NextApplySeq == Apply(1, ApplyBodies, MaxApplications)
SpecApplySeq == InitPopulated /\ [][NextApplySeq]_vars

StatusStep(r) ==
  \/ Apply(r, ApplyBodiesWithReason, MaxStatusApplications)
  \/ \E user \in Tokens, id \in 1..MaxStatusApplications, status \in StatusInputs,
        rejectionReason \in ReasonInputs :
       UpdateStatus(r, user, id, status, rejectionReason)

\* Applications and their status updates.
NextStatus == \E r \in Slots : StatusStep(r)
SpecStatus == InitPopulated /\ [][NextStatus]_vars

SetDefaultStep(r) ==
  \/ \E user \in Tokens, id \in ResumeIdInputs : SetDefault(r, user, id)
  \/ SetDefaultFinish(r)

\* Uploads that never ask for the default flag, and setDefaultResume.
NextSetDefault ==
  \E r \in Slots :
    \/ \E user \in Tokens, file \in BOOLEAN : CreateResume(r, user, file, FALSE)
    \/ SetDefaultStep(r)
SpecSetDefault == InitPopulated /\ [][NextSetDefault]_vars

\* Every resume request, each served to its end before the next starts.
NextResumesSeq ==
  \/ \E user \in Tokens, file \in BOOLEAN, isDefault \in BOOLEAN :
       CreateResume(1, user, file, isDefault)
  \/ SetDefaultStep(1)
  \/ \E user \in Tokens, id \in ResumeIdInputs : DeleteResume(1, user, id)
SpecResumesSeq == InitPopulated /\ [][NextResumesSeq]_vars

\* POST and DELETE /api/saved-jobs.
NextSavedJobs ==
  \E r \in Slots :
    \/ \E user \in Tokens, jobId \in SaveJobIds : SaveJob(r, user, jobId)
    \/ \E user \in Tokens, jobId \in SaveJobIds : UnsaveJob(r, user, jobId)
SpecSavedJobs == InitPopulated /\ [][NextSavedJobs]_vars

\* Every handler, served concurrently.
Next ==
  \E r \in Slots :
    \/ UsersStep(r)
    \/ JobsStep(r)
    \/ StatusStep(r)
    \/ \E user \in Tokens, file \in BOOLEAN, isDefault \in BOOLEAN :
         CreateResume(r, user, file, isDefault)
    \/ SetDefaultStep(r)
    \/ \E user \in Tokens, id \in ResumeIdInputs : DeleteResume(r, user, id)
    \/ \E user \in Tokens, jobId \in SaveJobIds : SaveJob(r, user, jobId)
    \/ \E user \in Tokens, jobId \in SaveJobIds : UnsaveJob(r, user, jobId)
Spec == Init /\ [][Next]_vars

\* -------------------------------------------------------------- properties
Students == {u \in DOMAIN users : users[u].role = "student"}

AtMostOneApplicationPerPair ==
  \A s \in DOMAIN users, j \in DOMAIN jobs : Cardinality(ApplicationsOf(s, j)) <= 1

\* A request for a pair that already has an application ends with the
\* "Already applied" error and leaves the applications as they were.
RepeatedApplyRejected ==
  \A r \in Slots :
    (/\ req[r].pc = "checked"
     /\ req'[r] = Idle
     /\ ApplicationsOf(req[r].applicationData.studentId, req[r].applicationData.jobId) # {})
    => /\ response' = [kind |-> "apply", status |-> 400,
                       message |-> "Already applied for this job"]
       /\ applications' = applications
       /\ currentApplicationId' = currentApplicationId

\* C1: with POST /api/applications requests served one after the other, no
\* (studentId, jobId) pair ever has more than one Application, and every attempt
\* for a pair that already has one is answered 400 "Already applied for this
\* job" and inserts nothing.
C1_AtMostOneApplication ==
  /\ []AtMostOneApplicationPerPair
  /\ [][RepeatedApplyRejected]_vars

\* A second attempt for a pair was rejected, and the pair still has its one row.
C1_Witness ==
  /\ response = [kind |-> "apply", status |-> 400, message |-> "Already applied for this job"]
  /\ \E s \in Students, j \in DOMAIN jobs : Cardinality(ApplicationsOf(s, j)) = 1
  /\ Cardinality(DOMAIN applications) >= 2

\* A request whose check found nothing inserts its row when it resumes, whatever
\* the store holds by then.
StaleCheckStillInserts ==
  \A r \in Slots :
    (/\ req[r].pc = "checked"
     /\ req'[r] = Idle
     /\ req[r].existingApplication = NoId)
    => /\ DOMAIN applications' = DOMAIN applications \cup {currentApplicationId}
       /\ currentApplicationId \notin DOMAIN applications
       /\ applications'[currentApplicationId].studentId = req[r].applicationData.studentId
       /\ applications'[currentApplicationId].jobId = req[r].applicationData.jobId
       /\ response' = [kind |-> "apply", status |-> 201, message |-> ""]

\* C3: the check-then-insert of POST /api/applications is not race-free: the
\* insert after the await is unconditional, so two concurrent requests of one
\* student for one job that both pass the check both insert (the witness).  Only
\* a storage whose calls suspend on I/O lets the second check run between the
\* first check and the first insert.
C3_CheckThenInsertRaces ==
  /\ [][StaleCheckStillInserts]_vars
  /\ [](variant \in MapVariants => AtMostOneApplicationPerPair)

\* Two Applications of one student for one job, both answered 201.
C3_Witness ==
  /\ \E s \in Students, j \in DOMAIN jobs : Cardinality(ApplicationsOf(s, j)) = 2
  /\ response = [kind |-> "apply", status |-> 201, message |-> ""]
  /\ \A r \in Slots : req[r] = Idle

\* A second call answered "User already exists": the store still holds exactly the
\* sample users and the one user the first call created, with the fields it stored.
C4_Witness ==
  /\ response = Response("register", 400, "User already exists")
  /\ DOMAIN users = {1, 2, 3}
  /\ users[3].email = "a@college.edu"
  /\ users[3].password = Hash("secret")
  /\ users[3].role = "student"
  /\ users[1] = SampleUser("student")
  /\ users[2] = SampleUser("faculty")

\* A register request for an email some user holds ends with 400 "User already
\* exists" and leaves the users as they were.
DuplicateRegisterRejected ==
  \A r \in Slots :
    (/\ req[r].kind = "register"
     /\ req'[r] = Idle
     /\ UsersWithEmail(req[r].userData.email) # {})
    => /\ response' = Response("register", 400, "User already exists")
       /\ users' = users
       /\ currentUserId' = currentUserId

\* C4: with requests served one after the other, POST /api/auth/register for an
\* email that an earlier call registered fails with 400 "User already exists",
\* creates no user and leaves every stored user record, the first caller's
\* included, unchanged.
C4_DuplicateRegisterRejected == [][DuplicateRegisterRejected]_vars

\* C2: once every setDefaultResume call has returned, a student has at most one
\* Resume with isDefault = true, also when two calls for two resumes overlapped.
C2_AtMostOneDefaultAfterSetDefault ==
  (\A r \in Slots : req[r] = Idle)
    => \A s \in DOMAIN users : Cardinality(DefaultResumesOf(s)) <= 1

\* C5: DELETE /api/jobs/:id by a faculty member who did not post the job is
\* answered 403 and leaves the job in the store.
C5_NonOwnerDeleteForbidden ==
  [][\A r \in Slots, user \in Tokens, id \in DOMAIN jobs :
       (/\ user.role = "faculty"
        /\ jobs[id].postedBy # user.id
        /\ DeleteJob(r, user, id))
       => /\ response'.status = 403
          /\ jobs' = jobs]_vars

\* C6: updateApplicationStatus(id, "rejected", reason) stores status "rejected"
\* and exactly that reason; a following updateApplicationStatus(id, "accepted")
\* without a reason leaves rejectionReason null.
C6_RejectThenAccept ==
  [][\A r \in Slots, user \in Tokens, id \in DOMAIN applications :
       /\ \A reason \in {"reasonA", "reasonB"} :
            (user.role = "faculty" /\ UpdateStatus(r, user, id, "rejected", reason))
            => /\ applications'[id].status = "rejected"
               /\ applications'[id].rejectionReason = reason
       /\ (/\ user.role = "faculty"
           /\ applications[id].status = "rejected"
           /\ applications[id].rejectionReason \in {"reasonA", "reasonB"}
           /\ UpdateStatus(r, user, id, "accepted", Null))
          => /\ applications'[id].status = "accepted"
             /\ applications'[id].rejectionReason = Null]_vars

\* C7: after saveJob(s, j), checkSavedJob(s, j) is true; after a following
\* unsaveJob(s, j) it is false; an unsaveJob(s, j) with nothing saved answers
\* "not found" (false), not an error, and changes nothing.
C7_SaveUnsaveCheck ==
  [][\A r \in Slots, user \in Tokens, j \in SaveJobIds :
       /\ (user.role = "student" /\ SaveJob(r, user, j) /\ response'.status = 201)
          => checkSavedJob(user.id, j)'
       /\ (user.role = "student" /\ UnsaveJob(r, user, j))
          => /\ ~checkSavedJob(user.id, j)'
             /\ response'.status \in {200, 404}
             /\ (~checkSavedJob(user.id, j) => response'.status = 404 /\ savedJobs' = savedJobs)]_vars

\* C8: no (studentId, jobId) pair has more than one SavedJob row.
C8_AtMostOneSavedJobPerPair ==
  \A s \in DOMAIN users, j \in SaveJobIds : Cardinality(SavedJobsOf(s, j)) <= 1

\* C9: no student has more than one Resume with isDefault = true, over
\* createResume, setDefaultResume and deleteResume.
C9_AtMostOneDefaultResume ==
  \A s \in DOMAIN users : Cardinality(DefaultResumesOf(s)) <= 1

\* C10: no two User records have the same email, over register and profile
\* requests in any interleaving.
C10_EmailsUnique ==
  \A u, v \in DOMAIN users : users[u].email = users[v].email => u = v

\* C11: an application's status moves only from "pending" to "accepted" or
\* "rejected": a decided application keeps its status under every later
\* PUT /api/applications/:id/status, and no status lies outside
\* {pending, accepted, rejected}.
C11_StatusTransitions ==
  /\ [](\A id \in DOMAIN applications :
          applications[id].status \in {"pending", "accepted", "rejected"})
  /\ [][\A id \in DOMAIN applications :
          applications[id].status \in {"accepted", "rejected"}
            => applications'[id].status = applications[id].status]_vars

\* C12: every application with a rejectionReason has status "rejected".
C12_ReasonOnlyWhenRejected ==
  \A id \in DOMAIN applications :
    Truthy(applications[id].rejectionReason) => applications[id].status = "rejected"

\* ------------------------------------------- responses carrying user objects
\* { ...user, password: undefined } as res.json sends it: JSON.stringify drops
\* a property whose value is undefined.
WithoutPassword(user) == [f \in DOMAIN user \ {"password"} |-> user[f]]

\* getAllApplications / getApplicationsByJob: each application with the stored
\* user row of its student embedded as `student`.
WithStudent(a) == [id |-> a, student |-> users[applications[a].studentId]]

getAllApplications == {WithStudent(a) : a \in DOMAIN applications}

getApplicationsByJob(jobId) ==
  {WithStudent(a) : a \in {x \in DOMAIN applications : applications[x].jobId = jobId}}

\* res.json(body) of a body that holds user objects: userObjects is the set of
\* them, as serialised.
RespondJson(r, kind, status, userObjects) ==
  /\ req' = [req EXCEPT ![r] = Idle]
  /\ response' = [kind |-> kind, status |-> status, message |-> "", users |-> userObjects]

\* GET /api/applications
GetAllApplications(r, user) ==
  /\ Free(r)
  /\ MayRun(r)
  /\ IF user.role # "faculty"
       THEN Respond(r, "applications", 403, "Only faculty can view all applications")
       ELSE RespondJson(r, "applications", 200, {x.student : x \in getAllApplications})
  /\ UNCHANGED <<variant, restVars, userVars, jobVars, applicationVars, resumeVars, savedJobVars>>

\* GET /api/auth/me
GetMe(r, user) ==
  /\ Free(r)
  /\ MayRun(r)
  /\ IF user.id \notin DOMAIN users
       THEN Respond(r, "me", 404, "User not found")
       ELSE RespondJson(r, "me", 200, {WithoutPassword(users[user.id])})
  /\ UNCHANGED <<variant, restVars, userVars, jobVars, applicationVars, resumeVars, savedJobVars>>

\* Applications, and the two reads that answer with user objects.
NextApplicationLists ==
  \E r \in Slots :
    \/ Apply(r, ApplyBodies, MaxStatusApplications)
    \/ \E user \in Tokens : GetAllApplications(r, user)
    \/ \E user \in Tokens : GetMe(r, user)
SpecApplicationLists == InitPopulated /\ [][NextApplicationLists]_vars

\* C13: no user object in any response body has a password field, the student
\* objects embedded in the list of GET /api/applications included.
C13_NoPasswordInResponses ==
  "users" \in DOMAIN response => \A o \in response.users : "password" \notin DOMAIN o

\* ------------------------------------- GET /api/users/departments/:department
DepartmentInputs == {"Computer Science", "Physics"}

\* The users of a department; MemStorage keeps only the students among them.
getUsersByDepartment(department) ==
  {u \in DOMAIN users :
     /\ users[u].department = department
     /\ variant = "MemStorage" => users[u].role = "student"}

GetDepartmentStudents(r, user, department) ==
  /\ Free(r)
  /\ MayRun(r)
  /\ IF user.role # "faculty"
       THEN Respond(r, "department", 403, "Only faculty can view department students")
       ELSE RespondJson(r, "department", 200,
                        {WithoutPassword(users[u]) : u \in getUsersByDepartment(department)})
  /\ UNCHANGED <<variant, restVars, userVars, jobVars, applicationVars, resumeVars, savedJobVars>>

\* ------------------------------------------------- the role-gated endpoints
MaxChanges == 1

\* How far the store is from the sample data: the rows added so far over all
\* the maps (those about to be added by a request in flight included), the
\* sample jobs deleted or deactivated, the applications decided and the
\* resumes made default.
Changes ==
  (currentJobId - 3) + (currentApplicationId - 1) + (currentResumeId - 1)
  + (currentSavedJobId - 1) + InFlight({"checked"})
  + Cardinality({j \in SampleJobIds : j \notin DOMAIN jobs})
  + Cardinality({j \in DOMAIN jobs : ~jobs[j].isActive})
  + Cardinality({a \in DOMAIN applications : applications[a].status # "pending"})
  + Cardinality({x \in DOMAIN resumes : resumes[x].isDefault})

\* A request to an endpoint that requires the faculty role.
FacultyRequest(r, user) ==
  \/ \E body \in {b \in JobBodies : b.isActive = Absent} : CreateJob(r, user, body)
  \/ \E id \in JobIdInputs : UpdateJob(r, user, id, [isActive |-> "false"])
  \/ \E id \in JobIdInputs : DeleteJob(r, user, id)
  \/ GetAllApplications(r, user)
  \/ \E id \in 1..MaxStatusApplications : UpdateStatus(r, user, id, "accepted", Null)
  \/ \E department \in DepartmentInputs : GetDepartmentStudents(r, user, department)

\* A request to an endpoint that requires the student role.
StudentRequest(r, user) ==
  \/ \E body \in ApplyBodies : ApplyStart(r, user, body)
  \/ \E file \in BOOLEAN : CreateResume(r, user, file, FALSE)
  \/ \E id \in ResumeIdInputs : DeleteResume(r, user, id)
  \/ \E id \in ResumeIdInputs : SetDefault(r, user, id)
  \/ \E jobId \in SaveJobIds : SaveJob(r, user, jobId)
  \/ \E jobId \in SaveJobIds : UnsaveJob(r, user, jobId)

\* Every role-gated endpoint, each request served to its end before the next
\* starts, as long as the store stays within MaxChanges of the sample data.
NextRoleGated ==
  \/ (\E user \in Tokens : FacultyRequest(1, user)) /\ Changes' <= MaxChanges
  \/ (\E user \in Tokens : StudentRequest(1, user)) /\ Changes' <= MaxChanges
  \/ ApplyCreate(1)
  \/ SetDefaultFinish(1)
SpecRoleGated == Init /\ [][NextRoleGated]_vars

StorageMaps == <<users, jobs, applications, resumes, savedJobs>>

Credentials ==
  {[header |-> FALSE, token |-> FALSE, id |-> NoId, verifies |-> FALSE],
   [header |-> TRUE, token |-> FALSE, id |-> NoId, verifies |-> FALSE]}
  \cup [header : {TRUE}, token : {TRUE}, id : DOMAIN users, verifies : BOOLEAN]

\* authHeader && authHeader.split(' ')[1]
HasToken(credential) == credential.header /\ credential.token

\* The handlers behind authenticateToken that this specification serves.
Protected(r, user) ==
  \/ GetMe(r, user)
  \/ \E jobId \in SaveJobIds : SaveJob(r, user, jobId)
  \/ \E jobId \in SaveJobIds : UnsaveJob(r, user, jobId)

\* A request to an endpoint registered with authenticateToken: the middleware
\* answers it, or sets req.user and calls next().
authenticateToken(r, credential) ==
  IF ~HasToken(credential)
    THEN /\ Free(r)
         /\ MayRun(r)
         /\ Respond(r, "authenticateToken", 401, "Access token required")
         /\ UNCHANGED <<variant, restVars, userVars, jobVars, applicationVars, resumeVars, savedJobVars>>
  ELSE IF ~credential.verifies
    THEN /\ Free(r)
         /\ MayRun(r)
         /\ Respond(r, "authenticateToken", 403, "Invalid token")
         /\ UNCHANGED <<variant, restVars, userVars, jobVars, applicationVars, resumeVars, savedJobVars>>
  ELSE Protected(r, Token(credential.id))

NextAuthenticated == \E r \in Slots, credential \in Credentials : authenticateToken(r, credential)
SpecAuthenticated == InitPopulated /\ [][NextAuthenticated]_vars

\* C15: a request to an authenticated endpoint with a missing credential or
\* with an invalid one is answered 401 and does not reach the handler.
C15_MissingOrInvalidIs401 ==
  [][\A r \in Slots, credential \in Credentials :
       ((~HasToken(credential) \/ ~credential.verifies) /\ authenticateToken(r, credential))
         => /\ response'.status = 401
            /\ response'.kind = "authenticateToken"
            /\ UNCHANGED StorageMaps]_vars

\* C16: PUT /api/jobs/:id and DELETE /api/jobs/:id by a faculty member for an
\* id no job has are answered 404 and change nothing.
C16_UnknownIdIs404 ==
  [][\A r \in Slots, user \in Tokens, id \in JobIdInputs \ DOMAIN jobs :
       (/\ user.role = "faculty"
        /\ \/ \E body \in JobUpdates : UpdateJob(r, user, id, body)
           \/ DeleteJob(r, user, id))
       => /\ response'.status = 404
          /\ UNCHANGED StorageMaps]_vars

\* ------------------------------------------------------------------- text
\* Texts are kept in the state as whole strings; Chars gives the characters of
\* each text the sample data, the request bodies and the queries use.
Chars(s) ==
  CASE s = "Software Engineer Intern" ->
      <<"S", "o", "f", "t", "w", "a", "r", "e", " ", "E", "n", "g", "i", "n", "e", "e", "r", " ", "I", "n", "t", "e", "r", "n">>
    [] s = "Full Stack Developer" ->
      <<"F", "u", "l", "l", " ", "S", "t", "a", "c", "k", " ", "D", "e", "v", "e", "l", "o", "p", "e", "r">>
    [] s = "Senior Software Engineer" ->
      <<"S", "e", "n", "i", "o", "r", " ", "S", "o", "f", "t", "w", "a", "r", "e", " ", "E", "n", "g", "i", "n", "e", "e", "r">>
    [] s = "Frontend Developer Intern" ->
      <<"F", "r", "o", "n", "t", "e", "n", "d", " ", "D", "e", "v", "e", "l", "o", "p", "e", "r", " ", "I", "n", "t", "e", "r", "n">>
    [] s = "StartupXYZ" ->
      <<"S", "t", "a", "r", "t", "u", "p", "X", "Y", "Z">>
    [] s = "TechCorp Solutions" ->
      <<"T", "e", "c", "h", "C", "o", "r", "p", " ", "S", "o", "l", "u", "t", "i", "o", "n", "s">>
    [] s = "TechCorp" ->
      <<"T", "e", "c", "h", "C", "o", "r", "p">>
    [] s = "Join our dynamic team as a Software Engineer Intern and gain hands-on experience in full-stack development." ->
      <<"J", "o", "i", "n", " ", "o", "u", "r", " ", "d", "y", "n", "a", "m", "i", "c", " ", "t", "e", "a", "m", " ", "a", "s", " ", "a", " ", "S", "o", "f", "t", "w", "a", "r", "e", " ", "E", "n", "g", "i", "n", "e", "e", "r", " ", "I", "n", "t", "e", "r", "n", " ", "a", "n", "d", " ", "g", "a", "i", "n", " ", "h", "a", "n", "d", "s", "-", "o", "n", " ", "e", "x", "p", "e", "r", "i", "e", "n", "c", "e", " ", "i", "n", " ", "f", "u", "l", "l", "-", "s", "t", "a", "c", "k", " ", "d", "e", "v", "e", "l", "o", "p", "m", "e", "n", "t", ".">>
    [] s = "We're looking for a passionate Full Stack Developer to join our growing team." ->
      <<"W", "e", "'", "r", "e", " ", "l", "o", "o", "k", "i", "n", "g", " ", "f", "o", "r", " ", "a", " ", "p", "a", "s", "s", "i", "o", "n", "a", "t", "e", " ", "F", "u", "l", "l", " ", "S", "t", "a", "c", "k", " ", "D", "e", "v", "e", "l", "o", "p", "e", "r", " ", "t", "o", " ", "j", "o", "i", "n", " ", "o", "u", "r", " ", "g", "r", "o", "w", "i", "n", "g", " ", "t", "e", "a", "m", ".">>
    [] s = "We are looking for a Senior Software Engineer to join our dynamic team. You will be responsible for developing scalable web applications..." ->
      <<"W", "e", " ", "a", "r", "e", " ", "l", "o", "o", "k", "i", "n", "g", " ", "f", "o", "r", " ", "a", " ", "S", "e", "n", "i", "o", "r", " ", "S", "o", "f", "t", "w", "a", "r", "e", " ", "E", "n", "g", "i", "n", "e", "e", "r", " ", "t", "o", " ", "j", "o", "i", "n", " ", "o", "u", "r", " ", "d", "y", "n", "a", "m", "i", "c", " ", "t", "e", "a", "m", ".", " ", "Y", "o", "u", " ", "w", "i", "l", "l", " ", "b", "e", " ", "r", "e", "s", "p", "o", "n", "s", "i", "b", "l", "e", " ", "f", "o", "r", " ", "d", "e", "v", "e", "l", "o", "p", "i", "n", "g", " ", "s", "c", "a", "l", "a", "b", "l", "e", " ", "w", "e", "b", " ", "a", "p", "p", "l", "i", "c", "a", "t", "i", "o", "n", "s", ".", ".", ".">>
    [] s = "Great opportunity for students to gain hands-on experience in frontend development. Work with modern technologies and learn from experienced developers..." ->
      <<"G", "r", "e", "a", "t", " ", "o", "p", "p", "o", "r", "t", "u", "n", "i", "t", "y", " ", "f", "o", "r", " ", "s", "t", "u", "d", "e", "n", "t", "s", " ", "t", "o", " ", "g", "a", "i", "n", " ", "h", "a", "n", "d", "s", "-", "o", "n", " ", "e", "x", "p", "e", "r", "i", "e", "n", "c", "e", " ", "i", "n", " ", "f", "r", "o", "n", "t", "e", "n", "d", " ", "d", "e", "v", "e", "l", "o", "p", "m", "e", "n", "t", ".", " ", "W", "o", "r", "k", " ", "w", "i", "t", "h", " ", "m", "o", "d", "e", "r", "n", " ", "t", "e", "c", "h", "n", "o", "l", "o", "g", "i", "e", "s", " ", "a", "n", "d", " ", "l", "e", "a", "r", "n", " ", "f", "r", "o", "m", " ", "e", "x", "p", "e", "r", "i", "e", "n", "c", "e", "d", " ", "d", "e", "v", "e", "l", "o", "p", "e", "r", "s", ".", ".", ".">>
    [] s = "Looking for experienced software engineers to join our growing team." ->
      <<"L", "o", "o", "k", "i", "n", "g", " ", "f", "o", "r", " ", "e", "x", "p", "e", "r", "i", "e", "n", "c", "e", "d", " ", "s", "o", "f", "t", "w", "a", "r", "e", " ", "e", "n", "g", "i", "n", "e", "e", "r", "s", " ", "t", "o", " ", "j", "o", "i", "n", " ", "o", "u", "r", " ", "g", "r", "o", "w", "i", "n", "g", " ", "t", "e", "a", "m", ".">>
    [] s = "Summer internship opportunity for frontend development." ->
      <<"S", "u", "m", "m", "e", "r", " ", "i", "n", "t", "e", "r", "n", "s", "h", "i", "p", " ", "o", "p", "p", "o", "r", "t", "u", "n", "i", "t", "y", " ", "f", "o", "r", " ", "f", "r", "o", "n", "t", "e", "n", "d", " ", "d", "e", "v", "e", "l", "o", "p", "m", "e", "n", "t", ".">>
    [] s = "Engineer" ->
      <<"E", "n", "g", "i", "n", "e", "e", "r">>
    [] s = "Acme" ->
      <<"A", "c", "m", "e">>
    [] s = "Build REACT apps" ->
      <<"B", "u", "i", "l", "d", " ", "R", "E", "A", "C", "T", " ", "a", "p", "p", "s">>
    [] s = "react" ->
      <<"r", "e", "a", "c", "t">>
    [] s = "TECH" ->
      <<"T", "E", "C", "H">>
    [] s = "x_z" ->
      <<"x", "_", "z">>
    [] s = "%" ->
      <<"%">>
    [] s = "San Francisco, CA" ->
      <<"S", "a", "n", " ", "F", "r", "a", "n", "c", "i", "s", "c", "o", ",", " ", "C", "A">>
    [] s = "Remote" ->
      <<"R", "e", "m", "o", "t", "e">>
    [] s = "Bangalore, India" ->
      <<"B", "a", "n", "g", "a", "l", "o", "r", "e", ",", " ", "I", "n", "d", "i", "a">>
    [] s = "Mumbai, India" ->
      <<"M", "u", "m", "b", "a", "i", ",", " ", "I", "n", "d", "i", "a">>
    [] s = "remote" ->
      <<"r", "e", "m", "o", "t", "e">>
    [] s = "INDIA" ->
      <<"I", "N", "D", "I", "A">>
    [] s = "All Locations" ->
      <<"A", "l", "l", " ", "L", "o", "c", "a", "t", "i", "o", "n", "s">>
    [] s = "_emote" ->
      <<"_", "e", "m", "o", "t", "e">>
    [] s = "zzz" ->
      <<"z", "z", "z">>

Upper == <<"A", "B", "C", "D", "E", "F", "G", "H", "I", "J", "K", "L", "M", "N", "O", "P", "Q", "R", "S", "T", "U", "V", "W", "X", "Y", "Z">>
Lower == <<"a", "b", "c", "d", "e", "f", "g", "h", "i", "j", "k", "l", "m", "n", "o", "p", "q", "r", "s", "t", "u", "v", "w", "x", "y", "z">>

\* String.prototype.toLowerCase, one character and a whole text.
LowerChar(c) ==
  IF \E i \in DOMAIN Upper : Upper[i] = c
    THEN Lower[CHOOSE i \in DOMAIN Upper : Upper[i] = c]
    ELSE c

toLowerCase(text) == [i \in DOMAIN text |-> LowerChar(text[i])]

\* String.prototype.includes: part occurs in text as a run of characters.
includes(text, part) ==
  \E i \in 0..(Len(text) - Len(part)) : SubSeq(text, i + 1, i + Len(part)) = part

\* SQL LIKE on characters: % stands for any run of characters, _ for any one.
RECURSIVE Like(_, _)
Like(text, pattern) ==
  IF pattern = <<>> THEN text = <<>>
  ELSE IF Head(pattern) = "%"
    THEN \E k \in 0..Len(text) : Like(SubSeq(text, k + 1, Len(text)), Tail(pattern))
  ELSE /\ text # <<>>
       /\ Head(pattern) = "_" \/ Head(pattern) = Head(text)
       /\ Like(Tail(text), Tail(pattern))

\* ilike(column, `%${search}%`): LIKE without regard to case.
ilike(text, search) ==
  Like(toLowerCase(text), <<"%">> \o toLowerCase(search) \o <<"%">>)

\* ----------------------------------------------------------- GET /api/jobs
\* The jobs getJobs starts from: the active ones; MemStorage also drops those
\* whose deadline has passed.
Listed(j) ==
  /\ jobs[j].isActive
  /\ variant = "MemStorage" => jobs[j].deadline = "future"

\* The search filter: the lower-cased term occurs in the lower-cased title,
\* company or description (Map variants), or ILIKE '%term%' holds of one of
\* them (drizzle).
MatchesSearch(job, search) ==
  IF variant = "DrizzleStorage"
    THEN \/ ilike(Chars(job.title), Chars(search))
         \/ ilike(Chars(job.company), Chars(search))
         \/ ilike(Chars(job.description), Chars(search))
    ELSE LET searchTerm == toLowerCase(Chars(search))
         IN  \/ includes(toLowerCase(Chars(job.title)), searchTerm)
             \/ includes(toLowerCase(Chars(job.company)), searchTerm)
             \/ includes(toLowerCase(Chars(job.description)), searchTerm)

\* The ids of the jobs that pass the filters; a filter that is undefined or
\* empty is not applied.
\* The location filter: a substring test without regard to case (storage.ts),
\* with regard to case (MemStorage), or ILIKE '%location%' (drizzle).
MatchesLocation(job, location) ==
  IF variant = "DatabaseStorage"
    THEN includes(toLowerCase(Chars(job.location)), toLowerCase(Chars(location)))
  ELSE IF variant = "MemStorage"
    THEN includes(Chars(job.location), Chars(location))
  ELSE ilike(Chars(job.location), Chars(location))

\* Whether a filter is applied: it is truthy, and for MemStorage it is not the
\* "All ..." entry of the client's select box.
Applied(value, all) ==
  /\ Truthy(value)
  /\ variant = "MemStorage" => value # all

Selected(filters) ==
  {j \in DOMAIN jobs :
     /\ Listed(j)
     /\ Applied(filters.location, "All Locations") => MatchesLocation(jobs[j], filters.location)
     /\ Applied(filters.type, "All Types") => jobs[j].type = filters.type
     /\ Truthy(filters.search) => MatchesSearch(jobs[j], filters.search)}

\* The ways to put the ids of S in a row.
Orderings(S) ==
  {f \in [1..Cardinality(S) -> S] : \A i, k \in 1..Cardinality(S) : i # k => f[i] # f[k]}

\* Array.from(map.values()): the order of insertion, which is the order of ids.
InsertionOrder(f) == \A i, k \in DOMAIN f : i < k => f[i] < f[k]

\* jobsArray.sort((a, b) => b.createdAt - a.createdAt): newest first; the sort
\* is stable, so jobs of one instant stay in insertion order.
StableNewestFirst(f) ==
  \A i, k \in DOMAIN f :
    i < k => \/ jobs[f[i]].createdAt > jobs[f[k]].createdAt
             \/ jobs[f[i]].createdAt = jobs[f[k]].createdAt /\ f[i] < f[k]

\* ORDER BY created_at DESC: newest first; rows of one instant in any order.
NewestFirst(f) == \A i, k \in DOMAIN f : i < k => jobs[f[i]].createdAt >= jobs[f[k]].createdAt

\* The results getJobs(filters) can return, each a row of job ids.  storage.ts
\* sorts, MemStorage returns the filtered array as it is, drizzle orders by SQL.
getJobs(filters) ==
  {f \in Orderings(Selected(filters)) :
     IF variant = "DatabaseStorage" THEN StableNewestFirst(f)
     ELSE IF variant = "MemStorage" THEN InsertionOrder(f)
     ELSE NewestFirst(f)}

SearchInputs == {Absent, "", "react", "TECH", "x_z", "%"}
LocationInputs == {Absent, "remote", "INDIA", "All Locations", "_emote"}
TypeInputs == {Absent, "internship", "All Types"}
JobQueries == [search : SearchInputs, location : LocationInputs, type : TypeInputs]

\* A query without parameters.
NoFilters == [search |-> Absent, location |-> Absent, type |-> Absent]

\* GET /api/jobs: no credential is asked for; res.json(jobs).
GetJobs(r, query) ==
  /\ Free(r)
  /\ MayRun(r)
  /\ \E result \in getJobs(query) :
       /\ req' = [req EXCEPT ![r] = Idle]
       /\ response' = [kind |-> "jobs", status |-> 200, message |-> "",
                       jobs |-> [i \in DOMAIN result |-> jobs[result[i]]]]
  /\ UNCHANGED <<variant, restVars, userVars, jobVars, applicationVars, resumeVars, savedJobVars>>

\* The job requests and the job list.
NextListing ==
  \E r \in Slots :
    \/ JobsStep(r)
    \/ \E query \in JobQueries : GetJobs(r, query)
SpecListing == Init /\ [][NextListing]_vars

\* C17: getJobs with no filter returns its jobs in strictly descending order of
\* createdAt: each result was created later than the one after it.
C17_StrictlyNewestFirst ==
  [][\A r \in Slots :
       GetJobs(r, NoFilters)
         => \A i \in 1..(Len(response'.jobs) - 1) :
              response'.jobs[i].createdAt > response'.jobs[i + 1].createdAt]_vars

\* The text t occurs in the text s when case is disregarded.
ContainsIgnoringCase(s, t) == includes(toLowerCase(Chars(s)), toLowerCase(Chars(t)))

\* C18: getJobs({search: t}) returns exactly the stored jobs whose title,
\* company or description contains t when case is disregarded.
C18_SearchReturnsExactlyTheMatches ==
  [][\A r \in Slots, t \in SearchInputs \ {Absent, ""} :
       GetJobs(r, [NoFilters EXCEPT !.search = t])
         => {response'.jobs[i].id : i \in DOMAIN response'.jobs}
              = {j \in DOMAIN jobs :
                   \/ ContainsIgnoringCase(jobs[j].title, t)
                   \/ ContainsIgnoringCase(jobs[j].company, t)
                   \/ ContainsIgnoringCase(jobs[j].description, t)}]_vars

\* C19: setDefaultResume(id, studentId) for an id that does not exist or that
\* belongs to another student returns false (the request is answered 404) and
\* leaves the isDefault flag of every resume as it was.
C19_OwnershipCheckedFirst ==
  [][/\ \A user \in Tokens, id \in ResumeIdInputs :
          (/\ user.role = "student"
           /\ ~Owns(id, user.id)
           /\ SetDefault(1, user, id))
          => /\ resumes' = resumes
             /\ req'[1] = Idle => response'.status = 404
     /\ (/\ req[1].pc = "cleared"
         /\ ~Owns(req[1].id, req[1].studentId)
         /\ SetDefaultFinish(1))
        => /\ resumes' = resumes
           /\ response'.status = 404]_vars

\* PUT /api/users/profile, each request served to its end before the next.
NextProfile == \E user \in Tokens, body \in ProfileBodies : UpdateProfile(1, user, body)
SpecProfile == InitPopulated /\ [][NextProfile]_vars

InsertApplications ==
  [studentId : Students, jobId : DOMAIN jobs, rejectionReason : {Null, "reasonA"}]
  \cup [studentId : Students, jobId : DOMAIN jobs, rejectionReason : {Null, "reasonA"},
        status : {"accepted", "rejected"}]

\* The number of direct calls of createApplication explored.
MaxCreated == 2

\* await storage.createApplication(application): the argument and the row
\* returned, which is the row stored.
CallCreateApplication(application) ==
  /\ \A r \in Slots : Free(r)
  /\ currentApplicationId <= MaxCreated
  /\ createApplication(application)
  /\ response' = [kind |-> "createApplication", status |-> 0, message |-> "",
                  argument |-> application,
                  returned |-> applications'[currentApplicationId]]
  /\ UNCHANGED <<variant, restVars, userVars, jobVars, resumeVars, savedJobVars, req>>

NextCreateApplication ==
  \E application \in InsertApplications : CallCreateApplication(application)
SpecCreateApplication == InitPopulated /\ [][NextCreateApplication]_vars

\* C21: every Application createApplication returns has status "pending",
\* whatever the input object carries, a status property of its own included;
\* the row it stores is the row it returns.
C21_CreatedPending ==
  /\ [][\A application \in InsertApplications :
          CallCreateApplication(application)
            => /\ response'.returned.status = "pending"
               /\ applications'[currentApplicationId] = response'.returned
               /\ response'.returned.studentId = application.studentId
               /\ response'.returned.jobId = application.jobId]_vars
  /\ [](\A a \in DOMAIN applications : applications[a].status = "pending")

\* An input that carried status "accepted" came back "pending".
C21_Witness ==
  /\ response.kind = "createApplication"
  /\ "status" \in DOMAIN response.argument
  /\ response.argument.status = "accepted"
  /\ response.returned.status = "pending"
  /\ \E a \in DOMAIN applications : applications[a] = response.returned

\* ------------------------------------- POST /api/applications, body with studentId
NextApplyOwned == \E r \in Slots : Apply(r, ApplyBodiesWithStudentId, MaxStatusApplications)
SpecApplyOwned == InitPopulated /\ [][NextApplyOwned]_vars

\* C22: every Application created through POST /api/applications has the id of
\* the caller's token as studentId, also when the body names another student:
\* the data the handler parses carries the token's id, and the row inserted
\* when the request resumes carries that id.
C22_StudentIdFromToken ==
  [][\A r \in Slots :
       /\ \A user \in Tokens, body \in ApplyBodiesWithStudentId :
            (ApplyStart(r, user, body) /\ req'[r].pc = "checked")
              => /\ user.role = "student"
                 /\ req'[r].applicationData.studentId = user.id
       /\ (ApplyCreate(r) /\ response'.status = 201)
            => /\ DOMAIN applications' = DOMAIN applications \cup {currentApplicationId}
               /\ applications'[currentApplicationId].studentId
                    = req[r].applicationData.studentId
               /\ \A a \in DOMAIN applications : applications'[a] = applications[a]]_vars

\* The registered student applied with a body that names the sample student, and
\* the row created belongs to the registered student.
C22_Witness ==
  /\ response = Response("apply", 201, "")
  /\ \E a \in DOMAIN applications : applications[a].studentId = 3
  /\ \A r \in Slots : req[r] = Idle

\* --------------------------------- DELETE /api/resumes/:id and the applications
\* Uploads, applications that name a resume, and deletes, each request served
\* to its end before the next starts.
MaxUploads == 2
MaxReferring == 1

NextResumeDelete ==
  \/ currentResumeId <= MaxUploads /\ \E user \in Tokens : CreateResume(1, user, TRUE, FALSE)
  \/ Apply(1, ApplyBodiesWithResume, MaxReferring)
  \/ \E user \in Tokens, id \in ResumeIdInputs : DeleteResume(1, user, id)
SpecResumeDelete == InitPopulated /\ [][NextResumeDelete]_vars

\* C23: deleteResume(id, studentId) removes the resume only when it exists and
\* belongs to the caller; for any other id it returns false (the request is
\* answered 404) and the resumes stay as they were.  In every case every
\* Application, those whose resumeId is id included, stays as it was.
C23_DeleteChecksOwnerNoCascade ==
  [][\A user \in Tokens, id \in ResumeIdInputs :
       DeleteResume(1, user, id)
         => /\ applications' = applications
            /\ resumes' # resumes
                 => /\ Owns(id, user.id)
                    /\ resumes' = Without(resumes, {id})
                    /\ response'.status = 200
            /\ (user.role = "student" /\ ~Owns(id, user.id))
                 => /\ response'.status = 404
                    /\ resumes' = resumes]_vars

\* A resume was deleted and an application still names it; another student's
\* resume is still there.
C23_Witness ==
  /\ response = Response("deleteResume", 200, "Resume deleted successfully")
  /\ \E a \in DOMAIN applications :
       applications[a].resumeId # NoId /\ applications[a].resumeId \notin DOMAIN resumes
  /\ resumes # <<>>

\* A filter value that was supplied: present and not empty.
Supplied(value) == value # Absent /\ value # ""

\* C24: the filters of getJobs are optional and conjunctive: every job returned
\* satisfies each filter supplied, the location as a substring without regard
\* to case, the type by equality, the search term in title, company or
\* description; a query without filters returns every listed job.
C24_FiltersConjunctive ==
  [][\A r \in Slots, query \in JobQueries :
       GetJobs(r, query)
         => /\ \A i \in DOMAIN response'.jobs :
                 LET job == response'.jobs[i]
                 IN  /\ Supplied(query.location)
                          => ContainsIgnoringCase(job.location, query.location)
                     /\ Supplied(query.type) => job.type = query.type
                     /\ Supplied(query.search)
                          => \/ ContainsIgnoringCase(job.title, query.search)
                             \/ ContainsIgnoringCase(job.company, query.search)
                             \/ ContainsIgnoringCase(job.description, query.search)
            /\ query = NoFilters
                 => {response'.jobs[i].id : i \in DOMAIN response'.jobs}
                      = {j \in DOMAIN jobs : Listed(j)}]_vars

\* ------------------------------------------------ getJobs(filters, userId)
\* A job with the flags of a user computed from every saved job and every
\* application, whoever they belong to.
Annotated_AnyStudent(job, userId) ==
  Spread(job,
         [savedByUser |-> \E x \in DOMAIN savedJobs : savedJobs[x].jobId = job.id,
          appliedByUser |-> \E a \in DOMAIN applications : applications[a].jobId = job.id])

\* { ...job, savedByUser: savedJobIds.has(job.id), appliedByUser:
\* appliedJobIds.has(job.id) }, the two sets being the job ids of the user's
\* saved jobs and applications.
Annotated(job, userId) ==
  Spread(job,
         [savedByUser |->
            job.id \in {savedJobs[x].jobId :
                          x \in {y \in DOMAIN savedJobs : savedJobs[y].studentId = userId}},
          appliedByUser |->
            job.id \in {applications[a].jobId :
                          a \in {b \in DOMAIN applications : applications[b].studentId = userId}}])

\* The results of getJobs(filters, userId) for a user id: the jobs of
\* getJobs(filters), in that order, each annotated.
getJobsFor(filters, userId) ==
  {[i \in DOMAIN f |-> Annotated(jobs[f[i]], userId)] : f \in getJobs(filters)}

AnnotatedQueries == {NoFilters, [NoFilters EXCEPT !.type = "internship"]}

\* await storage.getJobs(filters, userId), the call and what it returned.
\* MemStorage.getJobs takes no userId.
CallGetJobs(filters, userId) ==
  /\ variant # "MemStorage"
  /\ \A r \in Slots : Free(r)
  /\ \E result \in getJobsFor(filters, userId) :
       response' = [kind |-> "getJobs", status |-> 0, message |-> "",
                    userId |-> userId, jobs |-> result]
  /\ UNCHANGED <<variant, restVars, userVars, jobVars, applicationVars, resumeVars, savedJobVars, req>>

\* The saved jobs and applications created so far, a request that is about to
\* insert included.
MaxFlagged == 2
FlagRows == (currentSavedJobId - 1) + (currentApplicationId - 1) + InFlight({"checked"})

\* Saved jobs and applications, each request served to its end, and the call.
NextAnnotated ==
  \/ /\ \E user \in Tokens, jobId \in DOMAIN jobs : SaveJob(1, user, jobId)
     /\ FlagRows' <= MaxFlagged
  \/ \E user \in Tokens, jobId \in DOMAIN jobs : UnsaveJob(1, user, jobId)
  \/ Apply(1, ApplyBodies, MaxFlagged) /\ FlagRows' <= MaxFlagged
  \/ \E filters \in AnnotatedQueries, userId \in DOMAIN users : CallGetJobs(filters, userId)
SpecAnnotated == InitPopulated /\ [][NextAnnotated]_vars

\* C25: getJobs with a userId returns the jobs of getJobs without it, in the
\* same order, each with savedByUser = (the user has a SavedJob for the job) and
\* appliedByUser = (the user has an Application for the job).
C25_AnnotatedWithUserFlags ==
  [][\A filters \in AnnotatedQueries, userId \in DOMAIN users :
       CallGetJobs(filters, userId)
         => /\ \A i \in DOMAIN response'.jobs :
                 LET job == response'.jobs[i]
                 IN  /\ job.savedByUser = (SavedJobsOf(userId, job.id) # {})
                     /\ job.appliedByUser = (ApplicationsOf(userId, job.id) # {})
                     /\ \A f \in DOMAIN jobs[job.id] : job[f] = jobs[job.id][f]
            /\ [i \in DOMAIN response'.jobs |-> response'.jobs[i].id] \in getJobs(filters)]_vars

\* The sample student saved one job and applied for the other: the flags
\* differ from job to job.
C25_Witness ==
  /\ response.kind = "getJobs"
  /\ response.userId = 1
  /\ Len(response.jobs) = 2
  /\ \E i, k \in DOMAIN response.jobs :
       /\ response.jobs[i].savedByUser /\ ~response.jobs[i].appliedByUser
       /\ ~response.jobs[k].savedByUser /\ response.jobs[k].appliedByUser

\* ------------------------------------------------------ application lists
\* .sort((a, b) => b.appliedAt - a.appliedAt) on the rows in insertion order:
\* newest first, rows of one instant in insertion order.
AppliedStableNewestFirst(f) ==
  \A i, k \in DOMAIN f :
    i < k => \/ applications[f[i]].appliedAt > applications[f[k]].appliedAt
             \/ applications[f[i]].appliedAt = applications[f[k]].appliedAt /\ f[i] < f[k]

\* ORDER BY applied_at DESC: newest first, rows of one instant in any order.
AppliedNewestFirst(f) ==
  \A i, k \in DOMAIN f : i < k => applications[f[i]].appliedAt >= applications[f[k]].appliedAt

\* The orders in which a list function returns the applications with ids S:
\* storage.ts sorts, MemStorage maps the filtered array as it is, drizzle
\* orders by SQL.
ApplicationOrders(S) ==
  {f \in Orderings(S) :
     IF variant = "DatabaseStorage" THEN AppliedStableNewestFirst(f)
     ELSE IF variant = "MemStorage" THEN InsertionOrder(f)
     ELSE AppliedNewestFirst(f)}

getApplicationsByStudent(studentId) ==
  ApplicationOrders({a \in DOMAIN applications : applications[a].studentId = studentId})

getApplicationsByJobOrdered(jobId) ==
  ApplicationOrders({a \in DOMAIN applications : applications[a].jobId = jobId})

getAllApplicationsOrdered == ApplicationOrders(DOMAIN applications)

\* A call of one of the three list functions and the rows it returned.
CallApplicationList(by, id) ==
  /\ \A r \in Slots : Free(r)
  /\ \E f \in (IF by = "student" THEN getApplicationsByStudent(id)
               ELSE IF by = "job" THEN getApplicationsByJobOrdered(id)
               ELSE getAllApplicationsOrdered) :
       response' = [kind |-> "applicationList", status |-> 0, message |-> "", by |-> by,
                    applications |-> [i \in DOMAIN f |-> applications[f[i]]]]
  /\ UNCHANGED <<variant, restVars, userVars, jobVars, applicationVars, resumeVars, savedJobVars, req>>

\* Applications, each request served to its end, and the three lists.
NextApplicationOrder ==
  \/ Apply(1, ApplyBodies, MaxApplications)
  \/ \E studentId \in Students : CallApplicationList("student", studentId)
  \/ \E jobId \in DOMAIN jobs : CallApplicationList("job", jobId)
  \/ CallApplicationList("all", NoId)
SpecApplicationOrder == InitPopulated /\ [][NextApplicationOrder]_vars

\* C26: getApplicationsByStudent, getApplicationsByJob and getAllApplications
\* return their applications newest-applied first: appliedAt never increases
\* along the result.
C26_NewestAppliedFirst ==
  [](response.kind = "applicationList"
       => \A i \in 1..(Len(response.applications) - 1) :
            response.applications[i].appliedAt >= response.applications[i + 1].appliedAt)

\* ------------------------------------------------------ ElasticsearchService
MaxCalls == 3

\* What a call of the client does: it resolves or it rejects.
ClientOutcomes == {"ok", "fails"}

\* The same call outside a try: a rejection reaches the caller.
Settled_Uncaught(clientOutcome) == IF clientOutcome = "fails" THEN "threw" ELSE "returned"

\* try { await client... } catch (error) { console.error(...) }: the method
\* returns whether the client call resolved or rejected.
Settled(clientOutcome) == "returned"

\* initializeElasticsearch: the ping resolved; the flag is set and
\* createJobsIndex starts.
PingResolves ==
  /\ elastic.pc = "pinging"
  /\ isElasticsearchAvailable' = TRUE
  /\ elastic' = [elastic EXCEPT !.pc = "creatingIndex"]
  /\ UNCHANGED <<variant, userVars, jobVars, applicationVars, resumeVars, savedJobVars,
                 req, response, notificationVars, clientVars>>

\* initializeElasticsearch: the ping rejected; the catch clears the flag.
PingRejects ==
  /\ elastic.pc = "pinging"
  /\ isElasticsearchAvailable' = FALSE
  /\ elastic' = [elastic EXCEPT !.pc = "done"]
  /\ UNCHANGED <<variant, userVars, jobVars, applicationVars, resumeVars, savedJobVars,
                 req, response, notificationVars, clientVars>>

\* createJobsIndex: its own try/catch keeps a rejection from the catch of
\* initializeElasticsearch, so the flag stays set.
CreateJobsIndex(clientOutcome) ==
  /\ elastic.pc = "creatingIndex"
  /\ elastic' = [elastic EXCEPT !.pc = "done", !.calls = @ + 1]
  /\ UNCHANGED <<variant, userVars, jobVars, applicationVars, resumeVars, savedJobVars,
                 req, response, notificationVars, isElasticsearchAvailable, clientVars>>

SearchOperations == {"indexJob", "updateJob", "deleteJob", "bulkIndexJobs", "searchJobs"}

\* Whether the method returns before the try: the flag is false, or
\* bulkIndexJobs got no job.
ReturnsEarly(op, ids) ==
  \/ ~isElasticsearchAvailable
  \/ op = "bulkIndexJobs" /\ ids = {}

\* client.update and client.delete reject for a document that is not indexed.
Resolves(op, ids, clientOutcome) ==
  /\ clientOutcome = "ok"
  /\ op \in {"updateJob", "deleteJob"} => ids \subseteq elastic.index

\* The index after a call that resolved.
Indexed(op, ids) ==
  IF op \in {"indexJob", "bulkIndexJobs"} THEN elastic.index \cup ids
  ELSE IF op = "deleteJob" THEN elastic.index \ ids
  ELSE elastic.index

\* What a call of a method of the service gives its caller: how it ended,
\* whether it called the client, and for searchJobs the ids returned.  The ids
\* of a search that resolved are read from response.body.hits.hits, which is
\* there or not with the version of the client; a TypeError is caught.
CallSearchService(op, ids, clientOutcome) ==
  /\ elastic.calls < MaxCalls
  /\ IF ReturnsEarly(op, ids)
       THEN /\ response' = [kind |-> op, status |-> 0, message |-> "",
                            outcome |-> "returned", calledClient |-> FALSE, result |-> {}]
            /\ UNCHANGED elastic
       ELSE /\ elastic' = [elastic EXCEPT
                             !.calls = @ + 1,
                             !.index = IF Resolves(op, ids, clientOutcome)
                                         THEN Indexed(op, ids) ELSE @]
            /\ \E hits \in {{}, elastic.index} :
                 response' = [kind |-> op, status |-> 0, message |-> "",
                              outcome |-> Settled(IF Resolves(op, ids, clientOutcome)
                                                    THEN "ok" ELSE "fails"),
                              calledClient |-> TRUE,
                              result |-> IF op = "searchJobs"
                                              /\ Resolves(op, ids, clientOutcome)
                                           THEN hits ELSE {}]
  /\ UNCHANGED <<variant, userVars, jobVars, applicationVars, resumeVars, savedJobVars,
                 req, notificationVars, isElasticsearchAvailable, clientVars>>

\* The arguments of a method: one job, a list of jobs, or none (a search).
SearchArguments(op) ==
  IF op = "searchJobs" THEN {{}}
  ELSE IF op = "bulkIndexJobs" THEN SUBSET JobIdInputs
  ELSE {{id} : id \in JobIdInputs}

NextSearch ==
  \/ PingResolves
  \/ PingRejects
  \/ \E clientOutcome \in ClientOutcomes : CreateJobsIndex(clientOutcome)
  \/ \E op \in SearchOperations, clientOutcome \in ClientOutcomes :
       \E ids \in SearchArguments(op) : CallSearchService(op, ids, clientOutcome)
\* The service is part of the drizzle build.
InitSearch == Init /\ variant = "DrizzleStorage"
SpecSearch == InitSearch /\ [][NextSearch]_vars

\* C27: no method of ElasticsearchService lets a failure reach its caller.
\* While the flag is false, no method calls the client and searchJobs returns
\* the empty list; while it is true a rejected client call is caught and
\* searchJobs returns the empty list.  The flag is false at first and becomes
\* true only by a ping that resolved.
C27_SearchNeverFails ==
  /\ [](response.kind \in SearchOperations => response.outcome = "returned")
  /\ [](elastic.pc = "pinging" => ~isElasticsearchAvailable)
  /\ [][(isElasticsearchAvailable' /\ ~isElasticsearchAvailable) => PingResolves]_vars
  /\ [][\A op \in SearchOperations, clientOutcome \in ClientOutcomes :
          \A ids \in SearchArguments(op) :
            CallSearchService(op, ids, clientOutcome)
              => /\ ~isElasticsearchAvailable
                      => /\ elastic' = elastic
                         /\ ~response'.calledClient
                         /\ response'.result = {}
                 /\ (isElasticsearchAvailable /\ clientOutcome = "fails")
                      => /\ response'.outcome = "returned"
                         /\ response'.result = {}
                         /\ elastic'.index = elastic.index]_vars

\* A search whose client call was rejected returned the empty list although
\* jobs are indexed.
C27_Witness ==
  /\ isElasticsearchAvailable
  /\ response.kind = "searchJobs"
  /\ response.calledClient
  /\ response.outcome = "returned"
  /\ response.result = {}
  /\ elastic.index # {}

\* ------------------------------------------------------------ notifications
MaxNotifications == 2

\* InsertNotification objects: isRead is optional in the insert schema.  The
\* flag is written as JSON writes it.
InsertNotifications == [userId : DOMAIN users, isRead : {Absent, "false", "true"}]

\* The row createNotification stores: storage.ts and drizzle write isRead:
\* false after the spread, MemStorage keeps what the input has.
NewNotification(notification) ==
  IF variant = "MemStorage" THEN notification
  ELSE Spread(notification, [isRead |-> "false"])

createNotification(notification) ==
  /\ notifications' = notifications @@ (currentNotificationId :> NewNotification(notification))
  /\ currentNotificationId' = currentNotificationId + 1

\* await storage.createNotification(notification); no route calls it.
CallCreateNotification(notification) ==
  /\ \A r \in Slots : Free(r)
  /\ currentNotificationId <= MaxNotifications
  /\ createNotification(notification)
  /\ response' = [kind |-> "createNotification", status |-> 0, message |-> "",
                  returned |-> notifications'[currentNotificationId]]
  /\ UNCHANGED <<variant, userVars, jobVars, applicationVars, resumeVars, savedJobVars,
                 req, searchVars, clientVars>>

OwnsNotification(id, userId) ==
  id \in DOMAIN notifications /\ notifications[id].userId = userId

\* markNotificationAsRead(id, userId): true and the flag set when the user has
\* the notification, false and nothing otherwise.
markNotificationAsRead(id, userId) ==
  notifications' =
    IF OwnsNotification(id, userId)
      THEN [notifications EXCEPT ![id] = Spread(@, [isRead |-> "true"])]
      ELSE notifications

\* !notification.isRead (the Map variants) and is_read = false (drizzle).
Unread(notification) ==
  IF variant = "DrizzleStorage" THEN notification.isRead = "false"
  ELSE notification.isRead \in {"false", Absent, Null}

getUnreadNotificationCount(userId) ==
  Cardinality({n \in DOMAIN notifications :
                 notifications[n].userId = userId /\ Unread(notifications[n])})

NotificationIdInputs == 1..(MaxNotifications + 1)

\* PUT /api/notifications/:id/read
MarkRead(r, user, id) ==
  /\ Free(r)
  /\ MayRun(r)
  /\ markNotificationAsRead(id, user.id)
  /\ IF OwnsNotification(id, user.id)
       THEN Respond(r, "markRead", 200, "Notification marked as read")
       ELSE Respond(r, "markRead", 404, "Notification not found")
  /\ UNCHANGED <<variant, userVars, jobVars, applicationVars, resumeVars, savedJobVars,
                 currentNotificationId, searchVars, clientVars>>

\* GET /api/notifications/unread-count
GetUnreadCount(r, user) ==
  /\ Free(r)
  /\ MayRun(r)
  /\ req' = [req EXCEPT ![r] = Idle]
  /\ response' = [kind |-> "unreadCount", status |-> 200, message |-> "",
                  count |-> getUnreadNotificationCount(user.id)]
  /\ UNCHANGED <<variant, userVars, jobVars, applicationVars, resumeVars, savedJobVars,
                 notificationVars, searchVars, clientVars>>

NextNotifications ==
  \/ \E notification \in InsertNotifications : CallCreateNotification(notification)
  \/ \E r \in Slots, user \in Tokens, id \in NotificationIdInputs : MarkRead(r, user, id)
  \/ \E r \in Slots, user \in Tokens : GetUnreadCount(r, user)
SpecNotifications == InitPopulated /\ [][NextNotifications]_vars

\* C28: a stored Notification changes only by markNotificationAsRead of its
\* own user, which sets isRead to true; for an unknown id or another user's
\* notification the call returns false (404) and changes nothing; isRead never
\* goes from true back to false; and getUnreadNotificationCount(u) is the
\* number of u's notifications with isRead = false.
C28_OnlyMarkedReadByOwner ==
  /\ [][\A n \in DOMAIN notifications :
          /\ n \in DOMAIN notifications'
          /\ notifications'[n] # notifications[n]
               => /\ notifications'[n] = Spread(notifications[n], [isRead |-> "true"])
                  /\ \E r \in Slots, user \in Tokens :
                       MarkRead(r, user, n) /\ user.id = notifications[n].userId
          /\ notifications[n].isRead = "true" => notifications'[n].isRead = "true"]_vars
  /\ [][\A r \in Slots, user \in Tokens, id \in NotificationIdInputs :
          (MarkRead(r, user, id) /\ ~OwnsNotification(id, user.id))
            => response'.status = 404 /\ notifications' = notifications]_vars
  /\ [][\A r \in Slots, user \in Tokens :
          GetUnreadCount(r, user)
            => response'.count
                 = Cardinality({n \in DOMAIN notifications :
                                  /\ notifications[n].userId = user.id
                                  /\ notifications[n].isRead = "false"})]_vars

\* ------------------------------------------------- the visibility of a job
\* Partial<InsertJob> objects that set isActive, the deadline, both or neither.
VisibilityUpdates == [isActive : {Absent, "true", "false"}, deadline : {Absent, "past", "future"}]

\* await storage.updateJob(id, updates): the Map variants throw for an unknown
\* id, drizzle updates no row and returns undefined.
CallUpdateJob(id, updates) ==
  /\ \A r \in Slots : Free(r)
  /\ IF id \in DOMAIN jobs
       THEN /\ updateJob(id, updates)
            /\ response' = [kind |-> "updateJob", status |-> 0, message |-> "",
                            id |-> id, returned |-> Some(jobs'[id])]
       ELSE /\ jobs' = jobs
            /\ response' = [kind |-> "updateJob", status |-> 0,
                            message |-> IF variant \in MapVariants THEN "Job not found" ELSE "",
                            id |-> id, returned |-> None]
  /\ UNCHANGED <<variant, restVars, userVars, currentJobId, applicationVars, resumeVars,
                 savedJobVars, req>>

\* this.jobs.get(id) / SELECT ... WHERE id = $1: the job or undefined.
getJobById(id) == IF id \in DOMAIN jobs THEN Some(jobs[id]) ELSE None

CallGetJobById(id) ==
  /\ \A r \in Slots : Free(r)
  /\ response' = [kind |-> "getJobById", status |-> 0, message |-> "",
                  id |-> id, returned |-> getJobById(id)]
  /\ UNCHANGED <<variant, restVars, userVars, jobVars, applicationVars, resumeVars,
                 savedJobVars, req>>

\* The ids of the jobs a user posted; no test of isActive or of the deadline.
getJobsByPostedBy(userId) == {j \in DOMAIN jobs : jobs[j].postedBy = userId}

CallGetJobsByPostedBy(userId) ==
  /\ \A r \in Slots : Free(r)
  /\ response' = [kind |-> "getJobsByPostedBy", status |-> 0, message |-> "",
                  userId |-> userId,
                  returned |-> {jobs[j] : j \in getJobsByPostedBy(userId)}]
  /\ UNCHANGED <<variant, restVars, userVars, jobVars, applicationVars, resumeVars,
                 savedJobVars, req>>

NextVisibility ==
  \/ \E id \in JobIdInputs, updates \in VisibilityUpdates : CallUpdateJob(id, updates)
  \/ \E id \in JobIdInputs : CallGetJobById(id)
  \/ \E userId \in DOMAIN users : CallGetJobsByPostedBy(userId)
  \/ \E r \in Slots, query \in JobQueries : GetJobs(r, query)
SpecVisibility == Init /\ [][NextVisibility]_vars

\* C29: getJobs never returns a job whose isActive is false, whatever the
\* filters; getJobById and getJobsByPostedBy still return such a job; a job
\* that updateJob sets inactive is no longer in getJobs, and a job that
\* updateJob sets active is in getJobs again.
C29_InactiveHiddenFromListOnly ==
  /\ [][\A r \in Slots, query \in JobQueries :
          GetJobs(r, query)
            => \A i \in DOMAIN response'.jobs : response'.jobs[i].isActive]_vars
  /\ [][\A id \in DOMAIN jobs :
          CallGetJobById(id) => response'.returned = Some(jobs[id])]_vars
  /\ [][\A userId \in DOMAIN users :
          CallGetJobsByPostedBy(userId)
            => \A j \in DOMAIN jobs :
                 jobs[j].postedBy = userId => jobs[j] \in response'.returned]_vars
  /\ [][\A id \in DOMAIN jobs, updates \in VisibilityUpdates :
          (CallUpdateJob(id, updates) /\ updates.isActive # Absent)
            => (id \in Selected(NoFilters)' <=> updates.isActive = "true")]_vars

\* -------------------------------------------------------- client auth store
\* The useAuthStore definitions of the client: the one that reads localStorage
\* itself, the persisted one, the persisted one that also keeps 'auth-token',
\* the one that persists user and token and derives the flag on rehydration,
\* and the one with isInitialized.
StoreVariants == {"localStorage", "persist", "persistToken", "rehydrate", "initialized"}
PersistVariants == StoreVariants \ {"localStorage"}

AuthUsers == [id : {1, 2}, name : {"Student"}]
AuthTokens == {"jwt1", "jwt2"}
UserUpdates == [name : {"Renamed", "Other"}]

\* The object the creator function returns, without its functions.
InitialState(v) ==
  IF v = "localStorage"
    THEN [variant |-> v, user |-> None, token |-> localStorage.authToken,
          isAuthenticated |-> localStorage.authToken # Null]
  ELSE IF v = "initialized"
    THEN [variant |-> v, user |-> None, token |-> Null, isAuthenticated |-> FALSE,
          isInitialized |-> FALSE]
  ELSE [variant |-> v, user |-> None, token |-> Null, isAuthenticated |-> FALSE]

\* partialize: what persist writes under 'auth-storage'.
Partialize(state) ==
  IF state.variant = "rehydrate" THEN [user |-> state.user, token |-> state.token]
  ELSE [f \in DOMAIN state \ {"variant"} |-> state[f]]

\* onRehydrateStorage of the 'rehydrate' store: the flag is set on the
\* rehydrated state when it has a token and a user.
Rehydrated(state) ==
  IF state.variant = "rehydrate" /\ state.token # Null /\ state.user # None
    THEN [state EXCEPT !.isAuthenticated = TRUE]
    ELSE state

\* The state of a store right after the module is loaded: the initial state,
\* with the persisted fields merged over it when 'auth-storage' holds any.
Created(v) ==
  IF v \in PersistVariants /\ localStorage.authStorage # None
    THEN Rehydrated(Spread(InitialState(v), localStorage.authStorage[1]))
    ELSE InitialState(v)

\* What a set() of the store leaves in localStorage: persist writes the
\* partialized state under 'auth-storage'.
Persisted(state, authToken) ==
  [authToken |-> authToken,
   authStorage |-> IF state.variant \in PersistVariants THEN Some(Partialize(state))
                   ELSE localStorage.authStorage]

\* The stores that keep the token under 'auth-token' as well.
KeepsAuthToken(v) == v \in {"localStorage", "persistToken", "rehydrate"}

serverVars ==
  <<variant, userVars, jobVars, applicationVars, resumeVars, savedJobVars, req, response,
    notificationVars, searchVars>>

\* The page is opened: the module that defines the store runs.  A persisted
\* state is written back after rehydration, and the 'persistToken' store
\* copies a rehydrated token to 'auth-token'.
LoadPage(v) ==
  /\ authStore.variant \in {"none", v}
  /\ authStore' = Created(v)
  /\ localStorage' =
       IF v \in PersistVariants /\ localStorage.authStorage # None
         THEN Persisted(authStore',
                        IF v = "persistToken" /\ authStore'.token # Null
                          THEN authStore'.token ELSE localStorage.authToken)
         ELSE localStorage
  /\ UNCHANGED serverVars

Loaded == authStore.variant # "none"

\* login(user, token)
login(user, token) ==
  /\ Loaded
  /\ authStore' = Spread(authStore,
                         IF authStore.variant = "initialized"
                           THEN [user |-> Some(user), token |-> token,
                                 isAuthenticated |-> TRUE, isInitialized |-> TRUE]
                           ELSE [user |-> Some(user), token |-> token,
                                 isAuthenticated |-> TRUE])
  /\ localStorage' = Persisted(authStore',
                               IF KeepsAuthToken(authStore.variant) THEN token
                               ELSE localStorage.authToken)
  /\ UNCHANGED serverVars

\* logout()
logout ==
  /\ Loaded
  /\ authStore' = Spread(authStore,
                         IF authStore.variant = "initialized"
                           THEN [user |-> None, token |-> Null,
                                 isAuthenticated |-> FALSE, isInitialized |-> TRUE]
                           ELSE [user |-> None, token |-> Null,
                                 isAuthenticated |-> FALSE])
  /\ localStorage' = Persisted(authStore',
                               IF KeepsAuthToken(authStore.variant) THEN Null
                               ELSE localStorage.authToken)
  /\ UNCHANGED serverVars

\* What updateUser may be called with: Partial<User>, and a User for the
\* 'initialized' store.
UpdateArguments == IF authStore.variant = "initialized" THEN AuthUsers ELSE UserUpdates

\* updateUser(updates): the user with the updates spread over it while there
\* is a user; the 'rehydrate' store does not call set() without one, the
\* 'initialized' store sets the user it is given.  The 'localStorage' store
\* has no updateUser.
updateUser_Store(updates) ==
  /\ Loaded
  /\ authStore.variant # "localStorage"
  /\ IF authStore.variant = "initialized"
       THEN /\ authStore' = [authStore EXCEPT !.user = Some(updates)]
            /\ localStorage' = Persisted(authStore', localStorage.authToken)
     ELSE IF authStore.user # None
       THEN /\ authStore' = [authStore EXCEPT !.user = Some(Spread(@[1], updates))]
            /\ localStorage' = Persisted(authStore', localStorage.authToken)
     ELSE IF authStore.variant = "rehydrate"
       THEN UNCHANGED <<authStore, localStorage>>
     ELSE /\ authStore' = [authStore EXCEPT !.user = None]
          /\ localStorage' = Persisted(authStore', localStorage.authToken)
  /\ UNCHANGED serverVars

NextAuthStore ==
  \/ \E v \in StoreVariants : LoadPage(v)
  \/ \E user \in AuthUsers, token \in AuthTokens : login(user, token)
  \/ logout
  \/ \E updates \in UpdateArguments : updateUser_Store(updates)
SpecAuthStore == Init /\ [][NextAuthStore]_vars

\* C30: in a loaded auth store isAuthenticated is true exactly when user and
\* token are both non-null; logout leaves user null, token null and
\* isAuthenticated false; updateUser while there is no user leaves user null.
C30_AuthenticatedIffUserAndToken ==
  /\ [](Loaded => (authStore.isAuthenticated
                     <=> (authStore.user # None /\ authStore.token # Null)))
  /\ [][logout => /\ authStore'.user = None
                  /\ authStore'.token = Null
                  /\ authStore'.isAuthenticated = FALSE]_vars
  /\ [][\A updates \in UpdateArguments :
          (updateUser_Store(updates) /\ authStore.user = None)
            => authStore'.user = None]_vars

====
